---- MODULE Spec2Model ----
(***************************************************************************)
(* A model of the EasyMesh batch exporter (operators.py) and of its export *)
(* indicators (export_indicators.py).                                      *)
(*                                                                         *)
(*  - Spec       the batch operator MESH_OT_batch_export.execute with its  *)
(*               three per-object paths (single-shot, LOD chain, LOD       *)
(*               hierarchy), one action per step of the code.  Every call  *)
(*               into Blender may fail where the code allows a failure.    *)
(*  - SpecChain  the same operator, LOD chain path only, over every LOD    *)
(*               ratio setting of the bounded grid.                        *)
(*  - SpecFresh  the indicator state machine: mark, timer tick, clock.     *)
(*  - SpecIndicators  SpecFresh with the failing timer tick and the two    *)
(*               indicator operators (clear all, debug update).            *)
(*  - SpecLive   the indicator timer under weak fairness of its tick.      *)
(*  - SpecAddon  the indicators with register() and unregister().          *)
(*  - SpecTex    export_object: save_external_textures, the exporter and   *)
(*               restore_material_references, one action per texture.      *)
(*  - SpecResize, SpecTarget  the resize arithmetic and the target size    *)
(*               of save_external_textures over bounded inputs.            *)
(*  - SpecCompress  compress_textures, called repeatedly.                  *)
(*  - SpecDecimate  apply_decimate_modifier over its arguments.            *)
(*  - SpecCleanup  cleanup_object, called repeatedly on one object.        *)
(*  - SpecNaming  setup_export_object's naming over names built of a few   *)
(*               pieces, every convention, with and without LOD index.     *)
(*  - SpecBatchNames  the file names of two objects of one batch.           *)
(*  - SpecScale  setup_export_object's scale factor over the settings.     *)
(***************************************************************************)
EXTENDS Integers, Sequences, FiniteSets, TLC

(***************************************************************************)
(* Bounds of the model.                                                    *)
(***************************************************************************)
\* number of objects in the scene
NumObjs == 2
\* number of pieces a source name is made of
MaxPieces == 3
\* largest value of mesh_export_lod_count explored (the property allows 1..4)
MaxLodCount == 2
\* LOD ratios are multiples of 1/RatioScale
RatioScale == 4
\* number of missing directories on the export path explored
PathDepth == 2
\* number of clock advances explored by SpecFresh
MaxAdvances == 3
\* number of mark calls explored by SpecFresh
MaxMarks == 2
\* the value of time.time() when the model starts
StartTime == 1000
\* number of image-texture nodes in the materials of the exported object
NumNodes == 2
\* number of images in the file
NumImages == 2
\* number of compress_textures calls explored
MaxCalls == 2
\* image widths and heights 1..MaxDim are explored next to the sizes around
\* the texture sizes of the settings
MaxDim == 12

(***************************************************************************)
(* Program constants.                                                      *)
(***************************************************************************)
FRESH_DURATION_SECONDS == 60
STALE_DURATION_SECONDS == 300
\* ExportStatus.FRESH.value, ExportStatus.STALE.value, ExportStatus.NONE.value
FRESH == 0
STALE == 1
NONE == 2
\* the four properties mesh_export_lod_ratio_01 .. _04
NumRatioProps == 4

Objs == 1..NumObjs
ObjTypes == {"MESH", "CURVE", "META", "EMPTY"}
SupportedTypes == {"MESH", "CURVE", "META"}

\* obj.color is an RGBA tuple; components are written in tenths
White == <<10, 10, 10, 10>>
STATUS_COLOURS == [s \in {FRESH, STALE} |->
                     IF s = FRESH THEN <<2, 8, 2, 10>> ELSE <<8, 8, 2, 10>>]

\* a custom property is absent (<<>>) or holds one value (<<v>>)
Absent == <<>>
Has(p) == p # Absent
Val(p) == p[1]
NoProps == [mesh_export_timestamp |-> Absent,
            mesh_export_status |-> Absent,
            mesh_exporter_original_colour |-> Absent]

VARIABLES
  \* ---- the scene ----
  objType,      \* obj.type of every scene object
  colour,       \* obj.color of every scene object
  props,        \* the custom properties of every scene object
  clock,        \* time.time()
  timers,            \* the instances of update_timer_callback bpy.app.timers holds
  redraw,       \* how often the latest indicator handler ran its loop of
                \* area.tag_redraw() calls
  \* ---- the batch operator ----
  scene_props,  \* context.scene.mesh_exporter
  fsDirs,       \* how many directories of the export path exist
  files,        \* the artifact files written
  objects,      \* the temporary objects in bpy.data.objects
  meshes,       \* the temporary mesh datablocks in bpy.data.meshes
  complexity,   \* polygon count of the LOD chain copy, as a fraction <<n, d>>
                \* of the source's
  pc,           \* position of execute
  ex,           \* the local variables of execute
  loc,          \* the local variables of the running _process_* call
  \* ---- export_object and the textures ----
  images,       \* bpy.data.images: the attributes of every image, by name
  node_image,   \* node.image of every image-texture node
  quality,      \* scene.render.image_settings.quality
  tx,           \* the settings, the object and the local variables of the
                \* running export_object call, and its history
  \* ---- the selection ----
  selected,     \* the objects of the scene with select_get() true
  active,       \* context.view_layer.objects.active
  \* ---- history (not program state) ----
  hist,         \* history of the batch
  fh            \* history of the indicators

sceneVars == <<objType, colour, props, clock, timers, redraw>>
dataVars == <<objects, meshes, complexity>>
texVars == <<images, node_image, quality, tx>>
selVars == <<selected, active>>
batchVars == <<scene_props, fsDirs, files, objects, meshes, complexity, pc, ex, loc, hist,
               images, node_image, quality, tx, selected, active>>
vars == <<objType, colour, props, clock, timers, redraw, scene_props, fsDirs, files,
          objects, meshes, complexity, pc, ex, loc, hist, fh, images, node_image, quality, tx,
          selected, active>>

----------------------------------------------------------------------------
(***************************************************************************)
(* export_indicators.py                                                    *)
(***************************************************************************)

\* _delete_prop(obj, prop_name): the properties of obj without prop_name
delete_prop(p, name) == [p EXCEPT ![name] = Absent]

\* restore_object_colour(obj): <<colour, props>> of the object afterwards
restore_object_colour(c, p) ==
  IF ~Has(p.mesh_exporter_original_colour)
  THEN <<c, p>>
  ELSE LET original_colour_tuple == Val(p.mesh_exporter_original_colour)
       IN <<IF c # original_colour_tuple THEN original_colour_tuple ELSE c,
            delete_prop(p, "mesh_exporter_original_colour")>>

\* set_object_colour with the saved colour overwritten on every call
set_object_colour_overwrite(c, p) ==
  IF ~Has(p.mesh_export_status) THEN <<c, p>>
  ELSE IF Val(p.mesh_export_status) \notin DOMAIN STATUS_COLOURS THEN <<c, p>>
  ELSE <<STATUS_COLOURS[Val(p.mesh_export_status)],
         [p EXCEPT !.mesh_exporter_original_colour = <<c>>]>>

\* set_object_colour(obj): <<colour, props>> of the object afterwards
set_object_colour(c, p) ==
  IF ~Has(p.mesh_export_status) THEN <<c, p>>
  ELSE LET status == Val(p.mesh_export_status)
       IN IF status \notin DOMAIN STATUS_COLOURS THEN <<c, p>>
          ELSE LET target_colour == STATUS_COLOURS[status]
                   stored == IF ~Has(p.mesh_exporter_original_colour)
                             THEN [p EXCEPT !.mesh_exporter_original_colour = <<c>>]
                             ELSE p
               IN <<IF c # target_colour THEN target_colour ELSE c, stored>>

\* the status update_all_export_statuses computes with the windows swapped
\* to inclusive upper ends
new_status_inclusive(elapsed_time) ==
  IF elapsed_time <= FRESH_DURATION_SECONDS THEN FRESH
  ELSE IF elapsed_time <= STALE_DURATION_SECONDS THEN STALE
  ELSE NONE

\* the status update_all_export_statuses computes from the elapsed time
new_status(elapsed_time) ==
  IF elapsed_time < FRESH_DURATION_SECONDS THEN FRESH
  ELSE IF elapsed_time < STALE_DURATION_SECONDS THEN STALE
  ELSE NONE

\* a loop body that moves a record one status at a time: a FRESH record
\* found after the STALE window becomes STALE first
update_one_status_stepwise(type, c, p, current_time) ==
  IF ~(type = "MESH" /\ Has(p.mesh_export_timestamp)) THEN <<c, p, FALSE>>
  ELSE LET export_time == Val(p.mesh_export_timestamp)
       IN IF export_time = 0 THEN <<c, p, FALSE>>
          ELSE LET elapsed_time == current_time - export_time
                   old_status_val == IF Has(p.mesh_export_status)
                                     THEN Val(p.mesh_export_status) ELSE NONE
                   computed == new_status(elapsed_time)
                   new_status_val == IF old_status_val = FRESH /\ computed = NONE
                                     THEN STALE ELSE computed
               IN IF new_status_val = old_status_val THEN <<c, p, FALSE>>
                  ELSE IF new_status_val = NONE
                  THEN LET r == restore_object_colour(c, p)
                       IN <<r[1],
                            delete_prop(delete_prop(r[2], "mesh_export_timestamp"),
                                        "mesh_export_status"),
                            TRUE>>
                  ELSE LET r == set_object_colour(
                                  c, [p EXCEPT !.mesh_export_status = <<new_status_val>>])
                       IN <<r[1], r[2], TRUE>>

\* a loop body that writes every new status into the status property, the
\* expired one too, and restores the colour on expiry
update_one_status_stores_none(type, c, p, current_time) ==
  IF ~(type = "MESH" /\ Has(p.mesh_export_timestamp)) THEN <<c, p, FALSE>>
  ELSE LET export_time == Val(p.mesh_export_timestamp)
       IN IF export_time = 0 THEN <<c, p, FALSE>>
          ELSE LET elapsed_time == current_time - export_time
                   old_status_val == IF Has(p.mesh_export_status)
                                     THEN Val(p.mesh_export_status) ELSE NONE
                   new_status_val == new_status(elapsed_time)
                   stored == [p EXCEPT !.mesh_export_status = <<new_status_val>>]
               IN IF new_status_val = old_status_val THEN <<c, p, FALSE>>
                  ELSE IF new_status_val = NONE
                  THEN LET r == restore_object_colour(c, stored)
                       IN <<r[1], r[2], TRUE>>
                  ELSE LET r == set_object_colour(c, stored)
                       IN <<r[1], r[2], TRUE>>

\* a loop body that stamps the record with the time of the tick when it
\* turns it STALE
update_one_status_restamps(type, c, p, current_time) ==
  IF ~(type = "MESH" /\ Has(p.mesh_export_timestamp)) THEN <<c, p, FALSE>>
  ELSE LET export_time == Val(p.mesh_export_timestamp)
       IN IF export_time = 0 THEN <<c, p, FALSE>>
          ELSE LET elapsed_time == current_time - export_time
                   old_status_val == IF Has(p.mesh_export_status)
                                     THEN Val(p.mesh_export_status) ELSE NONE
                   new_status_val == new_status(elapsed_time)
               IN IF new_status_val = old_status_val THEN <<c, p, FALSE>>
                  ELSE IF new_status_val = NONE
                  THEN LET r == restore_object_colour(c, p)
                       IN <<r[1],
                            delete_prop(delete_prop(r[2], "mesh_export_timestamp"),
                                        "mesh_export_status"),
                            TRUE>>
                  ELSE LET r == set_object_colour(
                                  c, [p EXCEPT !.mesh_export_status = <<new_status_val>>,
                                               !.mesh_export_timestamp = <<current_time>>])
                       IN <<r[1], r[2], TRUE>>

\* the body of the loop of update_all_export_statuses for one object:
\* <<colour, props, changed>> of the object afterwards
update_one_status(type, c, p, current_time) ==
  IF ~(type = "MESH" /\ Has(p.mesh_export_timestamp)) THEN <<c, p, FALSE>>
  ELSE LET export_time == Val(p.mesh_export_timestamp)
       IN IF export_time = 0 THEN <<c, p, FALSE>>
          ELSE LET elapsed_time == current_time - export_time
                   old_status_val == IF Has(p.mesh_export_status)
                                     THEN Val(p.mesh_export_status) ELSE NONE
                   new_status_val == new_status(elapsed_time)
               IN IF new_status_val = old_status_val THEN <<c, p, FALSE>>
                  ELSE IF new_status_val = NONE
                  THEN LET r == restore_object_colour(c, p)
                       IN <<r[1],
                            delete_prop(delete_prop(r[2], "mesh_export_timestamp"),
                                        "mesh_export_status"),
                            TRUE>>
                  ELSE LET r == set_object_colour(
                                  c, [p EXCEPT !.mesh_export_status = <<new_status_val>>])
                       IN <<r[1], r[2], TRUE>>

\* mark_object_as_exported(obj) at time now: <<colour, props>> afterwards
mark_one(type, c, p, now) ==
  IF type # "MESH" THEN <<c, p>>
  ELSE set_object_colour(c, [p EXCEPT !.mesh_export_timestamp = <<now>>,
                                      !.mesh_export_status = <<FRESH>>])

\* bpy.app.timers.is_registered(update_timer_callback)
is_registered == timers > 0

\* mark_object_as_exported(obj)
mark_object_as_exported(o) ==
  /\ colour' = [colour EXCEPT ![o] = mark_one(objType[o], colour[o], props[o], clock)[1]]
  /\ props' = [props EXCEPT ![o] = mark_one(objType[o], colour[o], props[o], clock)[2]]
  /\ timers' = IF objType[o] = "MESH" /\ ~is_registered THEN timers + 1 ELSE timers
  /\ UNCHANGED <<objType, clock, redraw>>

\* the body of the loop of MESH_OT_clear_all_indicators.execute that forgets
\* the status property
clear_one_keep_status(type, c, p) ==
  IF type = "MESH" /\ (Has(p.mesh_export_timestamp)
                        \/ Has(p.mesh_exporter_original_colour))
  THEN LET r == restore_object_colour(c, p)
       IN <<r[1], delete_prop(r[2], "mesh_export_timestamp"), TRUE>>
  ELSE <<c, p, FALSE>>

\* the body of the loop of MESH_OT_clear_all_indicators.execute:
\* <<colour, props, counted>> of one object
clear_one(type, c, p) ==
  IF type = "MESH" /\ (Has(p.mesh_export_timestamp)
                        \/ Has(p.mesh_exporter_original_colour))
  THEN LET r == restore_object_colour(c, p)
       IN <<r[1],
            delete_prop(delete_prop(r[2], "mesh_export_timestamp"),
                        "mesh_export_status"),
            TRUE>>
  ELSE <<c, p, FALSE>>

\* a return value that is true only when a record expired
needs_redraw_on_expiry ==
  \E o \in Objs :
    LET u == update_one_status(objType[o], colour[o], props[o], clock)
    IN u[3] /\ ~Has(u[2].mesh_export_timestamp)

\* the value update_all_export_statuses() returns: a status changed
needs_redraw ==
  \E o \in Objs : update_one_status(objType[o], colour[o], props[o], clock)[3]

\* update_all_export_statuses(): the loop over the objects
update_all_export_statuses ==
  /\ colour' = [o \in Objs |->
                  update_one_status(objType[o], colour[o], props[o], clock)[1]]
  /\ props' = [o \in Objs |->
                 update_one_status(objType[o], colour[o], props[o], clock)[2]]
  /\ UNCHANGED <<objType, clock>>

----------------------------------------------------------------------------
(***************************************************************************)
(* operators.py: data                                                      *)
(***************************************************************************)

\* a fraction <<n, d>>
FracMul(a, b) == <<a[1] * b[1], a[2] * b[2]>>
FracEq(a, b) == a[1] * b[2] = b[1] * a[2]

\* Python's None, and the temporary objects the pipeline creates for a source
None == [src |-> 0, kind |-> "none", level |-> 0]
SrcId(o) == [src |-> o, kind |-> "source", level |-> 0]
CopyId(o) == [src |-> o, kind |-> "copy", level |-> 0]
ConvertedId(o) == [src |-> o, kind |-> "converted", level |-> 0]
LodId(o, l) == [src |-> o, kind |-> "lod", level |-> l]
EmptyId(o) == [src |-> o, kind |-> "empty", level |-> 0]

\* the objects among ids that carry mesh data of their own
WithMesh(ids) == {i \in ids : i.kind # "empty"}

LocInit == [lod_level |-> 0, lod_obj |-> None, base_lod_obj |-> None,
            temp_metaball_mesh |-> None, export_obj |-> None,
            previous_ratio |-> RatioScale, success_count |-> 0,
            failures |-> <<>>, lod_objects |-> <<>>, parent_empty |-> None]

\* a failure entry of failed_exports
Failure(o, tag, level) == [obj |-> o, tag |-> tag, level |-> level]

\* the object execute is processing
Cur == ex.objects_to_export[ex.index]

\* the entry of the log of attempted operations
Op(level, name) == [level |-> level, op |-> name]
Logged(name) == [hist EXCEPT !.opLog = Append(@, Op(loc.lod_level, name))]

(***************************************************************************)
(* operators.py: functions                                                 *)
(***************************************************************************)

\* calculate_progressive_ratio without the division by the previous ratio
calculate_progressive_ratio_absolute(target_ratio, previous_ratio) ==
  <<target_ratio, RatioScale>>

\* calculate_progressive_ratio(target_ratio, previous_ratio); both ratios are
\* given in units of 1/RatioScale, the result is a fraction
calculate_progressive_ratio(target_ratio, previous_ratio) ==
  IF previous_ratio <= 0 THEN <<target_ratio, RatioScale>>
  ELSE <<target_ratio, previous_ratio>>

\* the Decimate modifier keeps its ratio within [0, 1] and leaves that
\* fraction of the polygons
decimated(poly, ratio) ==
  FracMul(poly, IF ratio[1] > ratio[2] THEN <<1, 1>> ELSE ratio)

\* ratios = [1.0] + lod_ratios_prop[:lod_count], one ratio too many
ratios_one_more ==
  <<RatioScale>> \o SubSeq(scene_props.lod_ratios, 1,
                           scene_props.mesh_export_lod_count + 1)

\* ratios = [1.0] + lod_ratios_prop[:scene_props.mesh_export_lod_count]
ratios ==
  <<RatioScale>> \o SubSeq(scene_props.lod_ratios, 1,
                           scene_props.mesh_export_lod_count)

\* the ratio of level lod_level (enumerate(ratios) counts from 0)
target_ratio == ratios[loc.lod_level + 1]

\* cleanup_object(obj, name): <<objects, meshes>> afterwards.  The mesh data
\* of a temporary object has this object as its only user.
cleanup_object(obj, objs, mshs) ==
  IF obj = None THEN <<objs, mshs>>
  ELSE IF obj \in objs THEN <<objs \ {obj}, mshs \ {obj}>>
  ELSE <<objs, mshs>>

\* the log of cleanup_object calls on an object
Cleaned(log, obj) == IF obj = None THEN log ELSE Append(log, obj)

\* create_export_copy(original_obj, context): the outcomes.  left are the
\* temporary objects in the scene when the call ends; entered tells whether
\* the call reached its with temp_selection_context block, and act is the
\* active object at the end of that block (the duplicate, which the operator
\* makes active, or the object the block started with).
create_export_copy(o) ==
  IF objType[o] = "META"
  THEN { [ok |-> TRUE, copy |-> CopyId(o), temp |-> ConvertedId(o),
          left |-> {CopyId(o), ConvertedId(o)},
          entered |-> TRUE, act |-> CopyId(o)],
         \* the conversion raised ProcessingError
         [ok |-> FALSE, copy |-> None, temp |-> None, left |-> {},
          entered |-> FALSE, act |-> None],
         \* the duplication raised after the conversion
         [ok |-> FALSE, copy |-> None, temp |-> None, left |-> {ConvertedId(o)},
          entered |-> TRUE, act |-> ConvertedId(o)] }
  ELSE { [ok |-> TRUE, copy |-> CopyId(o), temp |-> None, left |-> {CopyId(o)},
          entered |-> TRUE, act |-> CopyId(o)],
         [ok |-> FALSE, copy |-> None, temp |-> None, left |-> {},
          entered |-> TRUE, act |-> SrcId(o)] }

\* context.scene.objects, given the temporary objects
scene_objects(objs) == {SrcId(o) : o \in Objs} \cup objs

\* temp_selection_context(context, active_object, selected_objects): the
\* finally clause.  <<selected, active>> when the with statement is left, by
\* return or by exception, with act the active object at the end of the
\* block and scene the objects of the scene.
temp_selection_context(original_selected, original_active, scene, act) ==
  <<original_selected \cap scene,
    IF original_active # None /\ original_active \in scene
    THEN original_active ELSE act>>

\* a with temp_selection_context block was run and left
LeaveSelectionContext(scene, act) ==
  LET r == temp_selection_context(selected, active, scene, act)
  IN /\ selected' = r[1]
     /\ active' = r[2]

\* bpy.data.objects.remove(obj, do_unlink=True) for every obj of gone: a
\* removed object is no longer selected nor active
RemoveFromSelection(gone) ==
  /\ selected' = selected \ gone
  /\ active' = IF active \in gone THEN None ELSE active

IsExportable(o) == objType[o] \in SupportedTypes

\* the selected objects, in selection order
selected_objects == [i \in 1..NumObjs |-> i]

(***************************************************************************)
(* MESH_OT_batch_export._validate_export_setup and the start of execute    *)
(***************************************************************************)
Cancelled(left) ==
  /\ pc' = "done"
  /\ ex' = [ex EXCEPT !.result = "CANCELLED"]
  /\ hist' = [hist EXCEPT !.cancelLeftDirs = left]

Validate ==
  /\ pc = "validate"
  /\ LET objects_to_export == SelectSeq(selected_objects, IsExportable)
         hierarchy_mode == /\ scene_props.mesh_export_lod
                           /\ scene_props.mesh_export_lod_hierarchy
                           /\ scene_props.mesh_export_format = "FBX"
     IN IF objects_to_export = <<>> \/ scene_props.path_blank
        THEN Cancelled(0) /\ UNCHANGED fsDirs
        ELSE \E made \in fsDirs..PathDepth, writable \in BOOLEAN :
               /\ fsDirs' = made
               /\ IF made < PathDepth \/ ~writable
                  THEN Cancelled(made - fsDirs)
                  ELSE /\ pc' = "loop"
                       /\ ex' = [ex EXCEPT !.objects_to_export = objects_to_export,
                                           !.hierarchy_mode = hierarchy_mode]
                       /\ UNCHANGED hist
  /\ UNCHANGED <<sceneVars, scene_props, files, dataVars, loc, fh, texVars, selVars>>

(***************************************************************************)
(* MESH_OT_batch_export.execute: the loop over the objects                 *)
(***************************************************************************)
Dispatch ==
  /\ pc = "loop"
  /\ ex.index <= Len(ex.objects_to_export)
  /\ loc' = LocInit
  /\ hist' = [hist EXCEPT !.dispatched = Append(@, Cur), !.opLog = <<>>,
                          !.cleanupLog = <<>>, !.returned_copy = None,
                          !.applied_ratio = <<1, 1>>]
  /\ \/ /\ pc' = IF ex.hierarchy_mode THEN "hier_create"
                 ELSE IF scene_props.mesh_export_lod THEN "lod_create"
                 ELSE "single_create"
        /\ UNCHANGED ex
     \/ \* the call raises before it acquires anything
        /\ \E kind \in {"ProcessingError", "ResourceError", "Exception"} :
             ex' = [ex EXCEPT !.raised = kind]
        /\ pc' = "except"
  /\ UNCHANGED <<sceneVars, scene_props, fsDirs, files, dataVars, fh, texVars, selVars>>

\* the except clauses of the loop body
HandleRaised_abort ==
  /\ pc = "except"
  /\ ex' = [ex EXCEPT !.result = "CANCELLED", !.raised = ""]
  /\ pc' = "done"
  /\ UNCHANGED <<sceneVars, scene_props, fsDirs, files, dataVars, loc, hist, fh, texVars, selVars>>

HandleRaised ==
  /\ pc = "except"
  /\ ex' = [ex EXCEPT
       !.failed_exports =
          Append(@, Failure(Cur,
                            IF ex.raised = "ProcessingError" THEN "Processing Error"
                            ELSE IF ex.raised = "ResourceError" THEN "Resource Error"
                            ELSE "Unexpected Error", 0)),
       !.raised = "",
       !.index = @ + 1]
  /\ pc' = "loop"
  /\ UNCHANGED <<sceneVars, scene_props, fsDirs, files, dataVars, loc, hist, fh, texVars, selVars>>

\* "Update tracking" and "Mark object if successful"
Collect ==
  /\ pc = "collect"
  /\ ex' = [ex EXCEPT !.successful_exports = @ + loc.success_count,
                      !.failed_exports = @ \o loc.failures,
                      !.index = @ + 1]
  /\ IF loc.failures = <<>>
     THEN mark_object_as_exported(Cur)
     ELSE UNCHANGED sceneVars
  /\ pc' = "loop"
  /\ UNCHANGED <<scene_props, fsDirs, files, dataVars, loc, hist, fh, texVars, selVars>>

\* sorted(list(set(...))) of the objects of the failure entries; the names
\* of the objects are in the order of their numbers
unique_fails(failed_exports) ==
  LET fails == {failed_exports[i].obj : i \in DOMAIN failed_exports}
  IN CHOOSE seq \in [1..Cardinality(fails) -> fails] :
       \A i, j \in DOMAIN seq : i < j => seq[i] < seq[j]

\* _generate_export_report: the number of files of the message,
\* overall_success and the objects the message names, unique_fails[:5]
generate_export_report(successful_exports, failed_exports) ==
  [exported |-> successful_exports,
   overall_success |-> Len(failed_exports) = 0,
   named |-> SubSeq(unique_fails(failed_exports), 1,
                    IF Len(unique_fails(failed_exports)) > 5 THEN 5
                    ELSE Len(unique_fails(failed_exports)))]

\* the report and the return of execute
Finish ==
  /\ pc = "loop"
  /\ ex.index > Len(ex.objects_to_export)
  /\ ex' = [ex EXCEPT !.result = "FINISHED",
                      !.report = generate_export_report(ex.successful_exports,
                                                        ex.failed_exports)]
  /\ pc' = "done"
  /\ UNCHANGED <<sceneVars, scene_props, fsDirs, files, dataVars, loc, hist, fh, texVars, selVars>>

(***************************************************************************)
(* MESH_OT_batch_export._process_lod_export                                *)
(***************************************************************************)
\* lod_obj, temp_metaball_mesh = create_export_copy(original_obj, context)
LodCreateCopy ==
  /\ pc = "lod_create"
  /\ \E out \in create_export_copy(Cur) :
       /\ objects' = objects \cup out.left
       /\ meshes' = meshes \cup WithMesh(out.left)
       /\ IF out.entered
          THEN LeaveSelectionContext(scene_objects(objects \cup out.left), out.act)
          ELSE UNCHANGED selVars
       /\ IF out.ok
          THEN /\ loc' = [loc EXCEPT !.lod_obj = out.copy,
                                     !.temp_metaball_mesh = out.temp]
               /\ hist' = [Logged("create") EXCEPT !.returned_copy = out.copy]
               /\ pc' = "lod_setup"
          ELSE /\ hist' = Logged("create")
               /\ pc' = "lod_except"
               /\ UNCHANGED loc
  /\ complexity' = <<1, 1>>
  /\ UNCHANGED <<sceneVars, scene_props, fsDirs, files, ex, fh, texVars>>

\* setup_export_object(...): the rename and the transforms, which may raise
LodSetup ==
  /\ pc = "lod_setup"
  /\ hist' = Logged("setup")
  /\ \/ pc' = IF loc.lod_level = 0 THEN "lod_modifiers" ELSE "lod_decimate"
     \/ pc' = "lod_except"
  /\ UNCHANGED <<sceneVars, scene_props, fsDirs, files, dataVars, ex, loc, fh, texVars, selVars>>

\* apply_mesh_modifiers(lod_obj, ...); base_lod_obj = lod_obj
LodApplyModifiers ==
  /\ pc = "lod_modifiers"
  /\ hist' = Logged("modifiers")
  /\ \/ /\ loc' = [loc EXCEPT !.base_lod_obj = loc.lod_obj]
        /\ pc' = "lod_triangulate"
     \/ /\ pc' = "lod_except"
        /\ UNCHANGED loc
  /\ UNCHANGED <<sceneVars, scene_props, fsDirs, files, dataVars, ex, fh, texVars, selVars>>

\* apply_decimate_modifier(base_lod_obj, progressive_ratio, ...);
\* lod_obj = base_lod_obj
LodDecimate ==
  /\ pc = "lod_decimate"
  /\ LET progressive_ratio ==
           calculate_progressive_ratio(target_ratio, loc.previous_ratio)
     IN /\ hist' = [Logged("decimate") EXCEPT !.applied_ratio = progressive_ratio]
        /\ \/ /\ complexity' = decimated(complexity, progressive_ratio)
              /\ loc' = [loc EXCEPT !.lod_obj = loc.base_lod_obj]
              /\ pc' = "lod_triangulate"
           \/ /\ pc' = "lod_except"
              /\ UNCHANGED <<complexity, loc>>
  /\ UNCHANGED <<sceneVars, scene_props, fsDirs, files, objects, meshes, ex, fh, texVars, selVars>>

\* triangulate_mesh(lod_obj, ...) if mesh_export_tri, at every level
LodTriangulate_every_level ==
  /\ pc = "lod_triangulate"
  /\ IF scene_props.mesh_export_tri
     THEN /\ hist' = Logged("triangulate")
          /\ \/ pc' = "lod_export"
             \/ pc' = "lod_except"
     ELSE /\ pc' = "lod_export"
          /\ UNCHANGED hist
  /\ UNCHANGED <<sceneVars, scene_props, fsDirs, files, dataVars, ex, loc, fh, texVars, selVars>>

\* triangulate_mesh(lod_obj, ...) if mesh_export_tri and lod_level == 0
LodTriangulate ==
  /\ pc = "lod_triangulate"
  /\ IF scene_props.mesh_export_tri /\ loc.lod_level = 0
     THEN /\ hist' = Logged("triangulate")
          /\ \/ pc' = "lod_export"
             \/ pc' = "lod_except"
     ELSE /\ pc' = "lod_export"
          /\ UNCHANGED hist
  /\ UNCHANGED <<sceneVars, scene_props, fsDirs, files, dataVars, ex, loc, fh, texVars, selVars>>

\* export_object(lod_obj, lod_file_path, ...) and the step of the loop
LodExport ==
  /\ pc = "lod_export"
  /\ hist' = Logged("export")
  /\ \/ /\ files' = files \cup {[src |-> Cur, kind |-> "lod", level |-> loc.lod_level]}
        /\ loc' = [loc EXCEPT !.success_count = @ + 1,
                              !.previous_ratio = target_ratio,
                              !.lod_level = @ + 1]
        /\ pc' = IF loc.lod_level + 1 < Len(ratios) THEN "lod_setup" ELSE "lod_finally"
     \/ \* export_object returned False: RuntimeError("Export func failed")
        /\ pc' = "lod_except"
        /\ UNCHANGED <<files, loc>>
  /\ LeaveSelectionContext(scene_objects(objects), loc.lod_obj)
  /\ UNCHANGED <<sceneVars, scene_props, fsDirs, dataVars, ex, fh, texVars>>

\* the except clause with the loop going on to the next level
LodExcept_continue ==
  /\ pc = "lod_except"
  /\ loc' = [loc EXCEPT !.failures = Append(@, Failure(Cur, "LOD", loc.lod_level)),
                        !.lod_level = @ + 1]
  /\ pc' = IF loc.lod_level + 1 < Len(ratios) /\ loc.base_lod_obj # None
           THEN "lod_setup" ELSE "lod_finally"
  /\ UNCHANGED <<sceneVars, scene_props, fsDirs, files, dataVars, ex, hist, fh, texVars, selVars>>

\* except Exception as lod_e: record the failure and break
LodExcept ==
  /\ pc = "lod_except"
  /\ loc' = [loc EXCEPT !.failures = Append(@, Failure(Cur, "LOD", loc.lod_level))]
  /\ pc' = "lod_finally"
  /\ UNCHANGED <<sceneVars, scene_props, fsDirs, files, dataVars, ex, hist, fh, texVars, selVars>>

\* finally: cleanup_object(base_lod_obj), cleanup_object(temp_metaball_mesh)
LodFinally ==
  /\ pc = "lod_finally"
  /\ LET a == cleanup_object(loc.base_lod_obj, objects, meshes)
         b == cleanup_object(loc.temp_metaball_mesh, a[1], a[2])
     IN /\ objects' = b[1]
        /\ meshes' = b[2]
        /\ hist' = [hist EXCEPT !.cleanupLog =
                      Cleaned(Cleaned(@, loc.base_lod_obj), loc.temp_metaball_mesh)]
  /\ RemoveFromSelection({loc.base_lod_obj, loc.temp_metaball_mesh})
  /\ pc' = "collect"
  /\ UNCHANGED <<sceneVars, scene_props, fsDirs, files, complexity, ex, loc, fh, texVars>>

(***************************************************************************)
(* MESH_OT_batch_export._process_single_export                             *)
(***************************************************************************)
\* export_obj, temp_metaball_mesh = create_export_copy(original_obj, context)
SingleCreateCopy ==
  /\ pc = "single_create"
  /\ \E out \in create_export_copy(Cur) :
       /\ objects' = objects \cup out.left
       /\ meshes' = meshes \cup WithMesh(out.left)
       /\ IF out.entered
          THEN LeaveSelectionContext(scene_objects(objects \cup out.left), out.act)
          ELSE UNCHANGED selVars
       /\ IF out.ok
          THEN /\ loc' = [loc EXCEPT !.export_obj = out.copy,
                                     !.temp_metaball_mesh = out.temp]
               /\ hist' = [Logged("create") EXCEPT !.returned_copy = out.copy]
               /\ pc' = "single_prepare"
          ELSE /\ loc' = [loc EXCEPT !.failures =
                            <<Failure(Cur, "Processing Error", 0)>>]
               /\ hist' = Logged("create")
               /\ pc' = "single_finally"
  /\ UNCHANGED <<sceneVars, scene_props, fsDirs, files, complexity, ex, fh, texVars>>

\* inside the with block: setup_export_object, apply_mesh_modifiers and
\* triangulate_mesh, any of which may raise
SinglePrepare ==
  /\ pc = "single_prepare"
  /\ hist' = Logged("setup")
  /\ \/ /\ pc' = "single_export"
        /\ UNCHANGED loc
     \/ /\ loc' = [loc EXCEPT !.failures = <<Failure(Cur, "Processing Error", 0)>>]
        /\ pc' = "single_exit"
  /\ UNCHANGED <<sceneVars, scene_props, fsDirs, files, dataVars, ex, fh, texVars, selVars>>

\* export_object(obj, file_path, ...) and the two return statements
SingleExport ==
  /\ pc = "single_export"
  /\ hist' = Logged("export")
  /\ \/ /\ files' = files \cup {[src |-> Cur, kind |-> "single", level |-> 0]}
        /\ loc' = [loc EXCEPT !.success_count = 1]
        /\ LeaveSelectionContext(scene_objects(objects), loc.export_obj)
     \/ /\ loc' = [loc EXCEPT !.failures = <<Failure(Cur, "", 0)>>]
        /\ UNCHANGED files
        /\ LeaveSelectionContext(scene_objects(objects), loc.export_obj)
     \/ \* export_object raised before its own try block
        /\ loc' = [loc EXCEPT !.failures = <<Failure(Cur, "Processing Error", 0)>>]
        /\ UNCHANGED <<files, selVars>>
  /\ pc' = "single_exit"
  /\ UNCHANGED <<sceneVars, scene_props, fsDirs, dataVars, ex, fh, texVars>>

\* temporary_object: finally cleanup_object(obj, obj_name)
SingleExit ==
  /\ pc = "single_exit"
  /\ LET a == cleanup_object(loc.export_obj, objects, meshes)
     IN /\ objects' = a[1]
        /\ meshes' = a[2]
  /\ hist' = [hist EXCEPT !.cleanupLog = Cleaned(@, loc.export_obj)]
  /\ RemoveFromSelection({loc.export_obj})
  /\ pc' = "single_finally"
  /\ UNCHANGED <<sceneVars, scene_props, fsDirs, files, complexity, ex, loc, fh, texVars>>

\* finally: cleanup_object(temp_metaball_mesh, ...)
SingleFinally ==
  /\ pc = "single_finally"
  /\ LET a == cleanup_object(loc.temp_metaball_mesh, objects, meshes)
     IN /\ objects' = a[1]
        /\ meshes' = a[2]
  /\ hist' = [hist EXCEPT !.cleanupLog = Cleaned(@, loc.temp_metaball_mesh)]
  /\ RemoveFromSelection({loc.temp_metaball_mesh})
  /\ pc' = "collect"
  /\ UNCHANGED <<sceneVars, scene_props, fsDirs, files, complexity, ex, loc, fh, texVars>>

(***************************************************************************)
(* MESH_OT_batch_export._process_object_hierarchy_export                   *)
(***************************************************************************)
\* LOD0: lod_obj, temp_metaball_mesh = create_export_copy(obj, context)
HierCreateCopy ==
  /\ pc = "hier_create"
  /\ \E out \in create_export_copy(Cur) :
       /\ objects' = objects \cup out.left
       /\ meshes' = meshes \cup WithMesh(out.left)
       /\ IF out.entered
          THEN LeaveSelectionContext(scene_objects(objects \cup out.left), out.act)
          ELSE UNCHANGED selVars
       /\ IF out.ok
          THEN /\ loc' = [loc EXCEPT !.lod_obj = out.copy,
                                     !.temp_metaball_mesh = out.temp]
               /\ hist' = [Logged("create") EXCEPT !.returned_copy = out.copy]
               /\ pc' = "hier_prepare"
          ELSE /\ hist' = Logged("create")
               /\ pc' = "hier_except"
               /\ UNCHANGED loc
  /\ UNCHANGED <<sceneVars, scene_props, fsDirs, files, complexity, ex, fh, texVars>>

\* LOD0: setup_export_object, apply_mesh_modifiers, triangulate_mesh;
\* base_lod_obj = lod_obj; lod_objects.append(lod_obj)
HierPrepareBase ==
  /\ pc = "hier_prepare"
  /\ hist' = Logged("setup")
  /\ \/ /\ loc' = [loc EXCEPT !.base_lod_obj = loc.lod_obj,
                              !.lod_objects = Append(@, loc.lod_obj),
                              !.lod_level = 1]
        /\ pc' = IF 1 < Len(ratios) THEN "hier_copy" ELSE "hier_parent"
     \/ /\ pc' = "hier_except"
        /\ UNCHANGED loc
  /\ UNCHANGED <<sceneVars, scene_props, fsDirs, files, dataVars, ex, fh, texVars, selVars>>

\* LOD1+: lod_obj = base_lod_obj.copy(); lod_obj.data = base_lod_obj.data.copy();
\* context.collection.objects.link(lod_obj)
HierCopyLevel ==
  /\ pc = "hier_copy"
  /\ objects' = objects \cup {LodId(Cur, loc.lod_level)}
  /\ meshes' = meshes \cup {LodId(Cur, loc.lod_level)}
  /\ loc' = [loc EXCEPT !.lod_obj = LodId(Cur, loc.lod_level)]
  /\ hist' = Logged("copy")
  /\ pc' = "hier_level"
  /\ UNCHANGED <<sceneVars, scene_props, fsDirs, files, complexity, ex, fh, texVars, selVars>>

\* LOD1+: setup_export_object, the Decimate modifier with target_ratio and
\* modifier_apply; lod_objects.append(lod_obj)
HierProcessLevel ==
  /\ pc = "hier_level"
  /\ hist' = Logged("decimate")
  /\ \/ /\ loc' = [loc EXCEPT !.lod_objects = Append(@, loc.lod_obj),
                              !.previous_ratio = target_ratio,
                              !.lod_level = @ + 1]
        /\ pc' = IF loc.lod_level + 1 < Len(ratios) THEN "hier_copy" ELSE "hier_parent"
        /\ active' = loc.lod_obj
     \/ \* raised, before or after context.view_layer.objects.active = lod_obj
        /\ pc' = "hier_except"
        /\ active' \in {active, loc.lod_obj}
        /\ UNCHANGED loc
  /\ UNCHANGED <<sceneVars, scene_props, fsDirs, files, dataVars, ex, fh, texVars, selected>>

\* parent_empty = create_lod_hierarchy(...) and the selection for the export
HierCreateParent ==
  /\ pc = "hier_parent"
  /\ objects' = objects \cup {EmptyId(Cur)}
  /\ loc' = [loc EXCEPT !.parent_empty = EmptyId(Cur)]
  /\ selected' = {EmptyId(Cur)}
                    \cup {loc.lod_objects[i] : i \in DOMAIN loc.lod_objects}
  /\ active' = EmptyId(Cur)
  /\ pc' = "hier_export"
  /\ UNCHANGED <<sceneVars, scene_props, fsDirs, files, meshes, complexity, ex, hist, fh,
                 texVars>>

\* bpy.ops.export_scene.fbx(...) inside its own try/except
HierExport ==
  /\ pc = "hier_export"
  /\ hist' = Logged("export")
  /\ \/ /\ files' = files \cup {[src |-> Cur, kind |-> "group", level |-> 0]}
        /\ loc' = [loc EXCEPT !.success_count = Len(loc.lod_objects)]
     \/ /\ loc' = [loc EXCEPT !.failures = Append(@, Failure(Cur, "Export failed", 0))]
        /\ UNCHANGED files
  /\ pc' = "hier_cleanup"
  /\ UNCHANGED <<sceneVars, scene_props, fsDirs, dataVars, ex, fh, texVars, selVars>>

\* "Clean up temporary objects": bpy.data.objects.remove for the parent and
\* the LOD objects, then bpy.data.meshes.remove(temp_metaball_mesh), which
\* raises TypeError because temp_metaball_mesh is an object, not a mesh
HierCleanup ==
  /\ pc = "hier_cleanup"
  /\ objects' = objects \ ({loc.parent_empty}
                           \cup {loc.lod_objects[i] : i \in DOMAIN loc.lod_objects})
  /\ RemoveFromSelection({loc.parent_empty}
                         \cup {loc.lod_objects[i] : i \in DOMAIN loc.lod_objects})
  /\ pc' = IF loc.temp_metaball_mesh # None THEN "hier_except" ELSE "collect"
  /\ UNCHANGED <<sceneVars, scene_props, fsDirs, files, meshes, complexity, ex, loc,
                 hist, fh, texVars>>

\* except Exception as e: failed_exports.append(... "Processing failed" ...)
HierExcept ==
  /\ pc = "hier_except"
  /\ loc' = [loc EXCEPT !.failures = Append(@, Failure(Cur, "Processing failed", 0))]
  /\ pc' = "collect"
  /\ UNCHANGED <<sceneVars, scene_props, fsDirs, files, dataVars, ex, hist, fh, texVars, selVars>>

----------------------------------------------------------------------------
(***************************************************************************)
(* operators.py: export_object, save_external_textures and                 *)
(* restore_material_references.  An image is known by its name: the name   *)
(* of the i-th image of the file has base i, the names made from it carry  *)
(* the suffixes appended ("_external", "_temp_resize"), and Blender keeps  *)
(* image names unique by appending a number (".001": dup 1) to a name that *)
(* is taken.                                                               *)
(***************************************************************************)
Nodes == 1..NumNodes
NoImage == [base |-> 0, suffix |-> <<>>, dup |-> 0]
ImgName(i) == [base |-> i, suffix |-> <<>>, dup |-> 0]

\* f"{name}{suffix}"
Suffixed(name, suffix) ==
  [base |-> name.base, suffix |-> Append(name.suffix, suffix), dup |-> 0]

\* name.endswith(suffix)
endswith(name, suffix) ==
  /\ name.dup = 0
  /\ Len(name.suffix) > 0
  /\ name.suffix[Len(name.suffix)] = suffix

\* the name Blender gives a datablock that asks for `name`
unique_name(name, imgs) ==
  IF name \notin DOMAIN imgs THEN name
  ELSE [name EXCEPT !.dup =
          CHOOSE k \in 1..(2 * NumNodes + 1) :
            /\ [name EXCEPT !.dup = k] \notin DOMAIN imgs
            /\ \A j \in 1..(k - 1) : [name EXCEPT !.dup = j] \in DOMAIN imgs]

\* the function f with the pair name |-> attrs added or replaced
WithImage(imgs, name, attrs) ==
  [x \in DOMAIN imgs \cup {name} |-> IF x = name THEN attrs ELSE imgs[x]]

\* bpy.data.images.remove
WithoutImages(imgs, names) == [x \in DOMAIN imgs \ names |-> imgs[x]]

\* get_texture_format_info(img)[0]
get_texture_format_info(img) ==
  IF img.is_float THEN "HDR"
  ELSE IF img.depth = 32 THEN "PNG"
  ELSE IF img.ext = ".png" THEN "PNG"
  ELSE IF img.ext \in {".tga", ".targa"} THEN "TARGA"
  ELSE IF img.ext = ".exr" THEN "OPEN_EXR"
  ELSE "JPEG"

\* mesh_export_lod1_texture_size .. mesh_export_lod4_texture_size: the
\* values each enumeration offers, and the defaults
SizeItems == <<{8192, 4096, 2048, 1024}, {4096, 2048, 1024, 512},
               {2048, 1024, 512, 256}, {1024, 512, 256, 128}>>
DefaultSizes == <<2048, 1024, 512, 256>>

\* the LOD level in the name of the exported object: -1 when the name
\* carries no _LODnn suffix
TexLevels == {-1} \cup (0..Len(SizeItems))

\* target_size of save_external_textures, 0 for None
nominal_target_size(cfg, level) ==
  IF cfg.resize /\ level \in 1..Len(SizeItems) THEN cfg.sizes[level] ELSE 0

\* adjusted_target_size of save_external_textures, 0 for None
adjusted_target_size(cfg, level, is_normal) ==
  LET target_size == nominal_target_size(cfg, level)
  IN IF is_normal /\ cfg.preserve /\ target_size # 0 /\ level \in 2..Len(SizeItems)
     THEN cfg.sizes[level - 1]
     ELSE target_size

\* a test that resizes whenever a target is set
needs_resize_always(w, h, T) == T # 0

\* needs_resize of save_external_textures
needs_resize(w, h, T) == T # 0 /\ (w > T \/ h > T)

\* int(x) of the float product or quotient whose exact value is n / d: the
\* floor, or one less where n / d is a whole number that the float
\* arithmetic may miss from below
float_int(n, d) ==
  IF n % d = 0 /\ d # 1 /\ n \div d >= 1 THEN {n \div d, (n \div d) - 1}
  ELSE {n \div d}

\* the pairs <<new_width, new_height>> save_external_textures may compute for
\* an image that needs a resize (the aspect ratio of a square image is 1.0,
\* which is exact)
resized(w, h, T) ==
  IF w > h
  THEN {<<T, IF x > 1 THEN x ELSE 1>> : x \in float_int(T * h, w)}
  ELSE IF w = h THEN {<<T, T>>}
  ELSE {<<IF x > 1 THEN x ELSE 1, T>> : x \in float_int(T * w, h)}

\* the dimensions of the image save_external_textures saves
new_dimensions(w, h, T) ==
  IF needs_resize(w, h, T) THEN resized(w, h, T) ELSE {<<w, h>>}

\* the nodes of material m, in the order of mat.node_tree.nodes
RECURSIVE NodesOf(_, _, _)
NodesOf(node_mat, m, n) ==
  IF n > NumNodes THEN <<>>
  ELSE (IF node_mat[n] = m THEN <<n>> ELSE <<>>) \o NodesOf(node_mat, m, n + 1)

\* the nodes in the order the two loops of save_external_textures visit
\* them: slot by slot, a material once for every slot it occupies
RECURSIVE Visits(_, _)
Visits(slots, node_mat) ==
  IF slots = <<>> THEN <<>>
  ELSE NodesOf(node_mat, Head(slots), 1) \o Visits(Tail(slots), node_mat)

\* the result of one pass of the inner loop of save_external_textures for
\* node n whose image has data: the images, the quality, the node's image
\* and the entry of original_references after it, for the pair `dims` of new
\* dimensions; `raised` says that img_to_save.save() raised
save_one(imgs, q, n, cfg, level, is_normal, dims, raised) ==
  LET name == node_image[n]
      img == imgs[name]
      format_string == get_texture_format_info(img)
      T == adjusted_target_size(cfg, level, is_normal)
      resize == needs_resize(img.w, img.h, T)
      temp_name == unique_name(Suffixed(name, "_temp_resize"), imgs)
      \* temp_img = img.copy(); temp_img.scale(new_width, new_height)
      imgs1 == IF resize
               THEN WithImage(imgs, temp_name,
                              [img EXCEPT !.w = dims[1], !.h = dims[2]])
               ELSE imgs
      to_save == IF resize THEN temp_name ELSE name
      original_filepath == imgs1[to_save].filepath
      \* img_to_save.filepath_raw = external_path; .file_format = format_string
      imgs2 == [imgs1 EXCEPT ![to_save].filepath = "export_dir",
                             ![to_save].file_format = format_string]
      q2 == IF format_string = "JPEG" THEN cfg.texture_quality ELSE q
      \* after save(): the path is put back and the temporary copy removed
      imgs3 == [imgs2 EXCEPT ![to_save].filepath = original_filepath]
      imgs4 == IF resize THEN WithoutImages(imgs3, {temp_name}) ELSE imgs3
      \* external_img = bpy.data.images.load(external_path): an image whose
      \* pixels are not in memory yet
      external_name == unique_name(Suffixed(name, "_external"), imgs4)
      external_img == [w |-> imgs2[to_save].w, h |-> imgs2[to_save].h,
                       has_data |-> FALSE, filepath |-> "export_dir",
                       file_format |-> format_string, depth |-> img.depth,
                       is_float |-> img.is_float, ext |-> img.ext]
  IN IF raised
     THEN [images |-> imgs2, quality |-> q2, image |-> name, saved |-> FALSE]
     ELSE [images |-> WithImage(imgs4, external_name, external_img),
           quality |-> q, image |-> external_name, saved |-> TRUE]

\* export_object is called: the textures are saved unless they are embedded
ExportObjectCall ==
  /\ pc = "idle"
  /\ tx.pc = "idle"
  /\ tx' = [tx EXCEPT !.pc = "save",
                      !.queue = IF tx.cfg.embed THEN <<>>
                                ELSE Visits(tx.slots, tx.node_mat),
                      !.before = [images |-> images, node_image |-> node_image,
                                  quality |-> quality]]
  /\ UNCHANGED <<sceneVars, scene_props, fsDirs, files, dataVars, pc, ex, loc, selVars,
                 hist, fh, images, node_image, quality>>

\* one pass of the inner loop of save_external_textures
SaveTexture ==
  /\ pc = "idle"
  /\ tx.pc = "save"
  /\ tx.queue # <<>>
  /\ LET n == Head(tx.queue)
         name == node_image[n]
     IN IF name = NoImage \/ ~images[name].has_data
        THEN /\ tx' = [tx EXCEPT !.queue = Tail(@)]
             /\ UNCHANGED <<images, node_image, quality>>
        ELSE \E raised \in {FALSE} \cup {r \in {TRUE} : ~tx.save_raised},
                dims \in new_dimensions(images[name].w, images[name].h,
                         adjusted_target_size(tx.cfg, tx.level, n \in tx.normal)) :
               LET r == save_one(images, quality, n, tx.cfg, tx.level,
                                 n \in tx.normal, dims, raised)
               IN /\ images' = r.images
                  /\ quality' = r.quality
                  /\ node_image' = [node_image EXCEPT ![n] = r.image]
                  /\ tx' = [tx EXCEPT
                       !.queue = Tail(@),
                       !.original_references =
                          IF r.saved
                          THEN [x \in DOMAIN @ \cup {n} |->
                                  IF x = n THEN name ELSE @[x]]
                          ELSE @,
                       !.save_raised = @ \/ raised,
                       !.sources = @ \cup {name},
                       !.rewired = IF r.saved THEN @ \cup {tx.node_mat[n]}
                                   ELSE @]
  /\ UNCHANGED <<sceneVars, scene_props, fsDirs, files, dataVars, pc, ex, loc, selVars,
                 hist, fh>>

\* the exporter of the format runs inside try: it writes the artifact, it
\* raises, or the format is not one of the five
RunExporter ==
  /\ pc = "idle"
  /\ tx.pc = "save"
  /\ tx.queue = <<>>
  /\ \E outcome \in {"exported", "raised", "unsupported"} :
       tx' = [tx EXCEPT !.pc = "finally", !.outcome = outcome,
                        !.success = (outcome = "exported")]
  /\ UNCHANGED <<sceneVars, scene_props, fsDirs, files, dataVars, pc, ex, loc, selVars,
                 hist, fh, images, node_image, quality>>

\* a restore that removes the loaded images and leaves the nodes as they are
restore_material_references_images_only(original_references) ==
  /\ node_image' = node_image
  /\ images' = WithoutImages(images,
                 {node_image[n] : n \in
                    {x \in DOMAIN original_references :
                       endswith(node_image[x], "_external")}})

\* restore_material_references(original_references): every recorded node gets
\* its image back, and the image it had is removed if its name ends in
\* "_external"
restore_material_references(original_references) ==
  /\ node_image' = [n \in Nodes |->
                      IF n \in DOMAIN original_references
                      THEN original_references[n] ELSE node_image[n]]
  /\ images' = WithoutImages(images,
                 {node_image[n] : n \in
                    {x \in DOMAIN original_references :
                       endswith(node_image[x], "_external")}})

\* the finally block of export_object, and its return
ExportObjectFinally ==
  /\ pc = "idle"
  /\ tx.pc = "finally"
  /\ IF DOMAIN tx.original_references # {}
     THEN restore_material_references(tx.original_references)
     ELSE UNCHANGED <<images, node_image>>
  /\ tx' = [tx EXCEPT !.pc = "returned"]
  /\ UNCHANGED <<sceneVars, scene_props, fsDirs, files, dataVars, pc, ex, loc, selVars,
                 hist, fh, quality>>

\* the images of the file: a large opaque bitmap, a small PNG with alpha, a
\* small TARGA with alpha, and an image whose file is missing (no data)
ImageKinds ==
  {[w |-> 3000, h |-> 1500, has_data |-> TRUE, filepath |-> "textures",
    file_format |-> "BMP", depth |-> 24, is_float |-> FALSE, ext |-> ".bmp"],
   [w |-> 512, h |-> 512, has_data |-> TRUE, filepath |-> "textures",
    file_format |-> "PNG", depth |-> 32, is_float |-> FALSE, ext |-> ".png"],
   [w |-> 512, h |-> 512, has_data |-> TRUE, filepath |-> "textures",
    file_format |-> "TARGA", depth |-> 32, is_float |-> FALSE, ext |-> ".tga"],
   [w |-> 0, h |-> 0, has_data |-> FALSE, filepath |-> "textures",
    file_format |-> "PNG", depth |-> 0, is_float |-> FALSE, ext |-> ".png"]}

\* the settings export_object and save_external_textures read:
\* mesh_export_embed_textures, mesh_export_resize_textures,
\* mesh_export_preserve_normal_maps, the four texture sizes and
\* mesh_export_texture_quality
TexSettings ==
  {[embed |-> e, resize |-> r, preserve |-> r, sizes |-> DefaultSizes,
    texture_quality |-> 85] : e \in BOOLEAN, r \in BOOLEAN} \
  {[embed |-> TRUE, resize |-> FALSE, preserve |-> FALSE,
    sizes |-> DefaultSizes, texture_quality |-> 85]}

\* the material slots of the exported copy and the material of every node:
\* one material, one material in two slots, two materials
Shapes ==
  {[slots |-> <<1>>, node_mat |-> [n \in Nodes |-> 1]],
   [slots |-> <<1, 1>>, node_mat |-> [n \in Nodes |-> 1]],
   [slots |-> <<1, 2>>, node_mat |-> [n \in Nodes |-> IF n = 1 THEN 1 ELSE 2]]}

TxIdle == [pc |-> "idle", cfg |-> CHOOSE c \in TexSettings : c.embed,
           level |-> -1, slots |-> <<>>, node_mat |-> [n \in Nodes |-> 1],
           normal |-> {}, source_materials |-> {},
           queue |-> <<>>, original_references |-> <<>>, success |-> FALSE,
           outcome |-> "", save_raised |-> FALSE, sources |-> {},
           rewired |-> {},
           before |-> [images |-> <<>>, node_image |-> <<>>, quality |-> 90]]

\* no export_object call with textures is under way
TexIdle ==
  /\ images = <<>>
  /\ node_image = [n \in Nodes |-> NoImage]
  /\ quality = 90
  /\ tx = TxIdle

----------------------------------------------------------------------------
(***************************************************************************)
(* The batch operator: initial states and specification                    *)
(***************************************************************************)
\* a record a mesh object carries from an earlier export, now STALE
StaleProps == [mesh_export_timestamp |-> <<StartTime - 100>>,
               mesh_export_status |-> <<STALE>>,
               mesh_exporter_original_colour |-> <<White>>]

\* ratio settings that fall from level to level
FallingRatios == [i \in 1..NumRatioProps |->
                    IF RatioScale > i THEN RatioScale - i ELSE 0]

\* The settings explored.  mesh_export_lod_hierarchy is read by
\* _validate_export_setup, drawn by the panel and set by the presets;
\* MeshExporterSettings does not declare it, and the model takes it as a
\* boolean setting like mesh_export_lod.  A setting the run never reads
\* keeps one value:
\* without LODs the hierarchy flag, the format and the LOD count are not
\* read, without the hierarchy flag the format is not read, and only the
\* LOD chain path reads mesh_export_tri on its own.
Settings ==
  {s \in [mesh_export_lod : BOOLEAN,
          mesh_export_lod_hierarchy : BOOLEAN,
          mesh_export_format : {"FBX", "OBJ"},
          mesh_export_lod_count : 1..MaxLodCount,
          mesh_export_tri : BOOLEAN,
          path_blank : BOOLEAN,
          lod_ratios : {FallingRatios}] :
     /\ ~s.mesh_export_lod =>
          /\ ~s.mesh_export_lod_hierarchy
          /\ s.mesh_export_lod_count = MaxLodCount
          /\ ~s.mesh_export_tri
     /\ ~s.mesh_export_lod_hierarchy => s.mesh_export_format = "FBX"
     /\ (s.mesh_export_lod_hierarchy /\ s.mesh_export_format = "FBX") =>
          ~s.mesh_export_tri}

ExInit == [objects_to_export |-> <<>>, hierarchy_mode |-> FALSE, index |-> 1,
           successful_exports |-> 0, failed_exports |-> <<>>,
           result |-> "RUNNING", raised |-> "",
           report |-> [exported |-> 0, overall_success |-> TRUE, named |-> <<>>]]

HistInit == [dispatched |-> <<>>, opLog |-> <<>>, cleanupLog |-> <<>>,
             cancelLeftDirs |-> 0, returned_copy |-> None,
             applied_ratio |-> <<1, 1>>]

FhInit == [baseColour |-> [o \in Objs |-> White],
           lastMark |-> [o \in Objs |-> Absent],
           lastOp |-> [op |-> "init", obj |-> 0],
           wasFresh |-> {},
           remarked |-> {}, advances |-> 0, marks |-> 0,
           cleared |-> {}]

\* the selection when the operator is invoked: every object is selected
\* (selected_objects) and the first one is the active object
SelInit ==
  /\ selected = {SrcId(o) : o \in Objs}
  /\ active = SrcId(1)

InitBatchState ==
  /\ files = {}
  /\ objects = {}
  /\ meshes = {}
  /\ complexity = <<1, 1>>
  /\ pc = "validate"
  /\ ex = ExInit
  /\ loc = LocInit
  /\ hist = HistInit
  /\ SelInit

\* the first object of the scene carries a STALE record of an earlier export
\* when it is a mesh; no other object has been exported before
PriorProps(type, o) == IF o = 1 /\ type = "MESH" THEN StaleProps ELSE NoProps
PriorColour(type, o) == IF o = 1 /\ type = "MESH" THEN STATUS_COLOURS[STALE] ELSE White

Init ==
  /\ objType \in [Objs -> ObjTypes]
  /\ props = [o \in Objs |-> PriorProps(objType[o], o)]
  /\ colour = [o \in Objs |-> PriorColour(objType[o], o)]
  /\ clock = StartTime
  /\ timers = 1
  /\ redraw = 0
  /\ scene_props \in Settings
  /\ fsDirs \in 0..PathDepth
  /\ fh = FhInit
  /\ TexIdle
  /\ InitBatchState

Next ==
  \/ Validate
  \/ Dispatch
  \/ HandleRaised
  \/ Collect
  \/ Finish
  \/ LodCreateCopy
  \/ LodSetup
  \/ LodApplyModifiers
  \/ LodDecimate
  \/ LodTriangulate
  \/ LodExport
  \/ LodExcept
  \/ LodFinally
  \/ SingleCreateCopy
  \/ SinglePrepare
  \/ SingleExport
  \/ SingleExit
  \/ SingleFinally
  \/ HierCreateCopy
  \/ HierPrepareBase
  \/ HierCopyLevel
  \/ HierProcessLevel
  \/ HierCreateParent
  \/ HierExport
  \/ HierCleanup
  \/ HierExcept

Spec == Init /\ [][Next]_vars

----------------------------------------------------------------------------
(***************************************************************************)
(* The indicators: marks, timer ticks and the passing of time              *)
(***************************************************************************)
\* the steps of the clock between two events: they reach the elapsed times
\* just below, on and above the ends of the two windows
Deltas == {1, FRESH_DURATION_SECONDS - 1,
           STALE_DURATION_SECONDS - FRESH_DURATION_SECONDS}

\* the objects whose record says FRESH
FreshOnes == {o \in Objs : props[o].mesh_export_status = <<FRESH>>}

\* a caller marks object o: mark_object_as_exported(o) at time.time() = clock
FreshMark(o) ==
  /\ pc = "idle"
  /\ fh.marks < MaxMarks
  /\ mark_object_as_exported(o)
  /\ fh' = [fh EXCEPT !.lastMark[o] = <<clock>>,
                      !.lastOp = [op |-> "mark", obj |-> o],
                      !.wasFresh = FreshOnes,
                      !.remarked = IF Has(props[o].mesh_export_timestamp)
                                   THEN @ \cup {o} ELSE @,
                      !.marks = @ + 1]
  /\ UNCHANGED batchVars

\* a callback that returns None, which unregisters the timer, when the
\* update raised
timer_kept_unless_raised(raised) == ~raised

\* whether the timer stays registered after update_timer_callback(): it
\* returns _TIMER_INTERVAL_SECONDS on every path
timer_kept(raised) == TRUE

\* update_timer_callback(): the timer runs update_all_export_statuses(),
\* tags every area for redraw if a status was updated, and returns the
\* interval, which keeps the timer registered
update_timer_callback ==
  /\ pc = "idle"
  /\ is_registered
  /\ update_all_export_statuses
  /\ redraw' = IF needs_redraw THEN 1 ELSE 0
  /\ timers' = IF timer_kept(FALSE) THEN timers ELSE timers - 1
  /\ fh' = [fh EXCEPT !.lastOp = [op |-> "tick", obj |-> 0],
                      !.wasFresh = FreshOnes]
  /\ UNCHANGED batchVars

\* update_timer_callback() when update_all_export_statuses() raises (bpy.data
\* is not available): the exception is logged, nothing is redrawn and the
\* interval is returned all the same
update_timer_callback_raised ==
  /\ pc = "idle"
  /\ is_registered
  /\ redraw' = 0
  /\ timers' = IF timer_kept(TRUE) THEN timers ELSE timers - 1
  /\ fh' = [fh EXCEPT !.lastOp = [op |-> "tick_raised", obj |-> 0],
                      !.wasFresh = FreshOnes]
  /\ UNCHANGED <<objType, colour, props, clock, batchVars>>

\* MESH_OT_clear_all_indicators.execute: the loop over all objects, then
\* the redraw of every area
clear_all_indicators ==
  /\ pc = "idle"
  /\ colour' = [o \in Objs |-> clear_one(objType[o], colour[o], props[o])[1]]
  /\ props' = [o \in Objs |-> clear_one(objType[o], colour[o], props[o])[2]]
  /\ redraw' = 1
  /\ fh' = [fh EXCEPT !.lastOp = [op |-> "clear", obj |-> 0],
                      !.wasFresh = FreshOnes,
                      !.cleared = {o \in Objs :
                          clear_one(objType[o], colour[o], props[o])[3]}]
  /\ UNCHANGED <<objType, clock, timers, batchVars>>

\* MESH_OT_debug_update_indicators.execute: an update of the statuses and a
\* redraw, whether or not a status changed
debug_update_indicators ==
  /\ pc = "idle"
  /\ update_all_export_statuses
  /\ redraw' = 1
  /\ UNCHANGED timers
  /\ fh' = [fh EXCEPT !.lastOp = [op |-> "debug", obj |-> 0],
                      !.wasFresh = FreshOnes]
  /\ UNCHANGED batchVars

\* time passes
Advance(d) ==
  /\ pc = "idle"
  /\ fh.advances < MaxAdvances
  /\ clock' = clock + d
  /\ fh' = [fh EXCEPT !.lastOp = [op |-> "advance", obj |-> 0],
                      !.advances = @ + 1]
  /\ UNCHANGED <<objType, colour, props, timers, redraw, batchVars>>

\* no object has been exported; the first object has a colour of its own
\* that happens to be the colour of the FRESH indicator
InitFresh ==
  /\ objType \in [Objs -> {"MESH", "CURVE"}]
  /\ colour = [o \in Objs |-> IF o = 1 THEN STATUS_COLOURS[FRESH] ELSE White]
  /\ props = [o \in Objs |-> NoProps]
  /\ clock = StartTime
  /\ timers \in {0, 1}
  /\ redraw = 0
  /\ scene_props \in {s \in Settings : ~s.mesh_export_lod /\ ~s.path_blank}
  /\ fsDirs = PathDepth
  /\ files = {}
  /\ objects = {}
  /\ meshes = {}
  /\ complexity = <<1, 1>>
  /\ pc = "idle"
  /\ ex = ExInit
  /\ loc = LocInit
  /\ hist = HistInit
  /\ fh = [FhInit EXCEPT !.baseColour = colour]
  /\ TexIdle
  /\ SelInit

NextFresh ==
  \/ \E o \in Objs : FreshMark(o)
  \/ update_timer_callback
  \/ \E d \in Deltas : Advance(d)

SpecFresh == InitFresh /\ [][NextFresh]_vars

(***************************************************************************)
(* The indicators with their two operators: marks, timer ticks, passing    *)
(* time, "clear all" and "update now".                                     *)
(***************************************************************************)
NextIndicators ==
  \/ \E o \in Objs : FreshMark(o)
  \/ update_timer_callback
  \/ update_timer_callback_raised
  \/ \E d \in Deltas \ {1} : Advance(d)
  \/ clear_all_indicators
  \/ debug_update_indicators

\* register() has started the timer; the last object may be no mesh
InitIndicators ==
  /\ InitFresh
  /\ is_registered
  /\ \A o \in Objs : o < NumObjs => objType[o] = "MESH"

SpecIndicators == InitIndicators /\ [][NextIndicators]_vars

(***************************************************************************)
(* The add-on's life: register() and unregister() with marks, timer ticks, *)
(* passing time and "clear all" in any order.                              *)
(***************************************************************************)
\* if is_registered(update_timer_callback): unregister(update_timer_callback),
\* which takes one instance away
timers_after_unregister(n) == IF n > 0 THEN n - 1 ELSE n

\* a registration that does not look for a timer that is there
timers_after_register_unchecked(n) == n + 1

\* register(): "always unregister first", then bpy.app.timers.register
timers_after_register(n) == timers_after_unregister(n) + 1

\* register()
register ==
  /\ pc = "idle"
  /\ timers' = timers_after_register(timers)
  /\ fh' = [fh EXCEPT !.lastOp = [op |-> "register", obj |-> 0],
                      !.wasFresh = FreshOnes]
  /\ UNCHANGED <<objType, colour, props, clock, redraw, batchVars>>

\* unregister(): the timer is stopped, then the loop over all objects
\* restores the colours and deletes the records
unregister ==
  /\ pc = "idle"
  /\ timers' = timers_after_unregister(timers)
  /\ colour' = [o \in Objs |-> clear_one(objType[o], colour[o], props[o])[1]]
  /\ props' = [o \in Objs |-> clear_one(objType[o], colour[o], props[o])[2]]
  /\ fh' = [fh EXCEPT !.lastOp = [op |-> "unregister", obj |-> 0],
                      !.wasFresh = FreshOnes]
  /\ UNCHANGED <<objType, clock, redraw, batchVars>>

\* the add-on is not enabled yet: no timer, no record
InitAddon ==
  /\ InitFresh
  /\ timers = 0

NextAddon ==
  \/ register
  \/ unregister
  \/ \E o \in Objs : FreshMark(o)
  \/ update_timer_callback
  \/ \E d \in Deltas \ {1} : Advance(d)
  \/ clear_all_indicators

SpecAddon == InitAddon /\ [][NextAddon]_vars

(***************************************************************************)
(* The indicators under a fair timer and an advancing clock.  Blender      *)
(* calls a registered timer again and again, and time passes; the clock is *)
(* observed as long as some record has not yet outlived the STALE window.  *)
(***************************************************************************)
Overdue(o) ==
  clock - Val(props[o].mesh_export_timestamp) >= STALE_DURATION_SECONDS

\* the steps of the clock: from FRESH into the STALE window, and past it
LongDeltas == Deltas \ {1, FRESH_DURATION_SECONDS - 1}

Elapse(d) ==
  /\ pc = "idle"
  /\ \E o \in Objs : Has(props[o].mesh_export_timestamp) /\ ~Overdue(o)
  /\ clock' = clock + d
  /\ fh' = [fh EXCEPT !.lastOp = [op |-> "advance", obj |-> 0]]
  /\ UNCHANGED <<objType, colour, props, timers, redraw, batchVars>>

NextLive ==
  \/ \E o \in Objs : FreshMark(o)
  \/ update_timer_callback
  \/ update_timer_callback_raised
  \/ \E d \in LongDeltas : Elapse(d)

SpecLive ==
  /\ InitFresh
  /\ [][NextLive]_vars
  /\ WF_vars(update_timer_callback)
  /\ WF_vars(\E d \in LongDeltas : Elapse(d))

----------------------------------------------------------------------------
(***************************************************************************)
(* The LOD chain path over every ratio setting of the grid                 *)
(***************************************************************************)
\* every setting of mesh_export_lod_ratio_01 .. _04 on the grid; the ratios
\* beyond the largest LOD count explored are never read and stay 0
AllRatios == {r \in [1..NumRatioProps -> 0..RatioScale] :
                \A i \in 1..NumRatioProps : i > MaxLodCount => r[i] = 0}

\* the settings that send every object down the LOD chain path
ChainSettings == [mesh_export_lod : {TRUE},
                  mesh_export_lod_hierarchy : {FALSE},
                  mesh_export_format : {"FBX"},
                  mesh_export_lod_count : 1..MaxLodCount,
                  mesh_export_tri : BOOLEAN,
                  path_blank : {FALSE},
                  lod_ratios : AllRatios]

\* one exportable object, a mesh or a metaball, is selected
InitChain ==
  /\ \E t \in {"MESH", "META"} :
       objType = [o \in Objs |-> IF o = 1 THEN t ELSE "EMPTY"]
  /\ props = [o \in Objs |-> NoProps]
  /\ colour = [o \in Objs |-> White]
  /\ clock = StartTime
  /\ timers = 1
  /\ redraw = 0
  /\ scene_props \in ChainSettings
  /\ fsDirs = PathDepth
  /\ fh = FhInit
  /\ TexIdle
  /\ InitBatchState

NextChain ==
  \/ Validate
  \/ Dispatch
  \/ HandleRaised
  \/ Collect
  \/ Finish
  \/ LodCreateCopy
  \/ LodSetup
  \/ LodApplyModifiers
  \/ LodDecimate
  \/ LodTriangulate
  \/ LodExport
  \/ LodExcept
  \/ LodFinally

SpecChain == InitChain /\ [][NextChain]_vars


(***************************************************************************)
(* export_object: initial states and specification                         *)
(***************************************************************************)
\* the batch operator is not running and no object carries a record; the
\* temporary objects and the local variables of a call are left open
SceneIdle ==
  /\ objType = [o \in Objs |-> "MESH"]
  /\ colour = [o \in Objs |-> White]
  /\ props = [o \in Objs |-> NoProps]
  /\ clock = StartTime
  /\ timers = 1
  /\ redraw = 0
  /\ scene_props = CHOOSE s \in Settings : ~s.mesh_export_lod /\ ~s.path_blank
  /\ fsDirs = PathDepth
  /\ files = {}
  /\ complexity = <<1, 1>>
  /\ pc = "idle"
  /\ ex = ExInit
  /\ hist = HistInit
  /\ fh = FhInit
  /\ SelInit

\* no call is under way
BatchIdle ==
  /\ SceneIdle
  /\ objects = {}
  /\ meshes = {}
  /\ loc = LocInit

\* a working copy made by create_export_copy is about to be exported: its
\* mesh is a copy of the source's mesh (copy_obj.data.copy()), which keeps
\* the materials of the source in its slots
InitTex ==
  /\ BatchIdle
  /\ \E k \in ImageKinds :
       images = [x \in {ImgName(i) : i \in 1..NumImages} |->
                   IF x = ImgName(1) THEN k
                   ELSE CHOOSE a \in ImageKinds : a.file_format = "BMP"]
  /\ node_image \in
       {f \in [Nodes -> {NoImage} \cup {ImgName(i) : i \in 1..NumImages}] :
          \A n \in Nodes :
            f[n] \in {NoImage, ImgName(1),
                      ImgName(IF n < NumImages THEN n ELSE NumImages)}}
  /\ quality = 90
  /\ \E c \in TexSettings, l \in TexLevels, s \in Shapes, nm \in {{}, {1}} :
       tx = [TxIdle EXCEPT !.cfg = c, !.level = l, !.slots = s.slots,
                           !.node_mat = s.node_mat, !.normal = nm,
                           !.source_materials = {s.slots[i] : i \in DOMAIN s.slots}]

NextTex ==
  \/ ExportObjectCall
  \/ SaveTexture
  \/ RunExporter
  \/ ExportObjectFinally

SpecTex == InitTex /\ [][NextTex]_vars

(***************************************************************************)
(* The resize arithmetic of save_external_textures as a function of the    *)
(* image's dimensions and the target size.                                 *)
(***************************************************************************)
\* every size the four settings offer
AllSizes == UNION {SizeItems[i] : i \in DOMAIN SizeItems}

InitResize ==
  /\ BatchIdle
  /\ node_image = [n \in Nodes |-> NoImage]
  /\ images = <<>>
  /\ quality = 90
  /\ LET Dims == (1..MaxDim) \cup AllSizes \cup {t + 1 : t \in AllSizes}
         Targets == (1..MaxDim) \cup AllSizes
     IN \E w \in Dims, h \in Dims, T \in Targets :
          tx = [pc |-> "size", w |-> w, h |-> h, T |-> T,
                scaled |-> FALSE, new |-> <<w, h>>]

\* lines 1654-1681 of save_external_textures for an image of w x h pixels
Resize ==
  /\ tx.pc = "size"
  /\ \E dims \in new_dimensions(tx.w, tx.h, tx.T) :
       tx' = [tx EXCEPT !.pc = "sized",
                        !.scaled = needs_resize(tx.w, tx.h, tx.T),
                        !.new = dims]
  /\ UNCHANGED <<sceneVars, scene_props, fsDirs, files, dataVars, pc, ex, loc, selVars,
                 hist, fh, images, node_image, quality>>

SpecResize == InitResize /\ [][Resize]_vars

(***************************************************************************)
(* operators.py: compress_textures, called for an object whose materials   *)
(* hold the image-texture nodes, once per decimation ratio (in percent).   *)
(***************************************************************************)
\* max(ratio ** 0.9, 0.05), in ten-thousandths, for the ratios explored
compression_factor(ratio) == IF ratio = 75 THEN 7719 ELSE 2872

\* 2 ** max(0, (n - 1).bit_length()): the least power of two >= n
RECURSIVE NextPow2(_, _)
NextPow2(n, p) == IF p >= n THEN p ELSE NextPow2(n, 2 * p)

\* <<new_width, new_height>> of compress_textures
compressed_size(img, ratio) ==
  LET scaled(x) == LET y == (x * compression_factor(ratio)) \div 10000
                   IN IF y > 64 THEN y ELSE 64
      is_power_of_2 == NextPow2(img.w, 1) = img.w /\ NextPow2(img.h, 1) = img.h
  IN IF is_power_of_2
     THEN <<NextPow2(scaled(img.w), 1), NextPow2(scaled(img.h), 1)>>
     ELSE <<scaled(img.w), scaled(img.h)>>

\* f"_LOD{ratio_suffix}"
LodSuffix(ratio) == IF ratio = 75 THEN "_LOD75" ELSE "_LOD25"

\* the images compress_textures makes a copy of: those it does not skip
Compressible(ratio) ==
  {x \in {node_image[n] : n \in Nodes} \ {NoImage} :
     /\ images[x].has_data /\ images[x].w # 0 /\ images[x].h # 0
     /\ ~endswith(x, "_LOD")
     /\ compressed_size(images[x], ratio) # <<images[x].w, images[x].h>>}

\* compress_textures(obj, ratio): every image it does not skip gets a scaled
\* copy named after it, and the nodes that use the image use the copy
compress_textures(ratio) ==
  /\ tx.pc = "compress"
  /\ tx.calls < MaxCalls
  /\ LET used == Compressible(ratio)
         copy_name(x) == Suffixed(x, LodSuffix(ratio))
     IN /\ images' = [y \in DOMAIN images \cup {copy_name(x) : x \in used} |->
                        IF \E x \in used : y = copy_name(x)
                        THEN LET x == CHOOSE x \in used : y = copy_name(x)
                             IN [images[x] EXCEPT
                                   !.w = compressed_size(images[x], ratio)[1],
                                   !.h = compressed_size(images[x], ratio)[2]]
                        ELSE images[y]]
        /\ node_image' = [n \in Nodes |->
                            IF node_image[n] \in used
                            THEN copy_name(node_image[n]) ELSE node_image[n]]
        /\ tx' = [tx EXCEPT !.calls = @ + 1, !.sources = @ \cup used]
  /\ UNCHANGED <<sceneVars, scene_props, fsDirs, files, dataVars, pc, ex, loc, selVars,
                 hist, fh, quality>>

\* the images of the file: one with power-of-two sides, one without, one
\* whose file is missing
InitCompress ==
  /\ BatchIdle
  /\ quality = 90
  /\ \E d \in {<<1024, 1024>>, <<1000, 600>>, <<0, 0>>} :
       images = [x \in {ImgName(i) : i \in 1..NumImages} |->
                   [w |-> IF x = ImgName(1) THEN d[1] ELSE 2048,
                    h |-> IF x = ImgName(1) THEN d[2] ELSE 2048,
                    has_data |-> (x # ImgName(1) \/ d[1] # 0),
                    filepath |-> "textures", file_format |-> "PNG",
                    depth |-> 32, is_float |-> FALSE, ext |-> ".png"]]
  /\ node_image \in [Nodes -> {NoImage} \cup {ImgName(i) : i \in 1..NumImages}]
  /\ tx = [pc |-> "compress", calls |-> 0, sources |-> {}]

SpecCompress ==
  InitCompress /\ [][\E ratio \in {75, 25} : compress_textures(ratio)]_vars

(***************************************************************************)
(* The target size of save_external_textures as a function of the four     *)
(* texture-size settings, the LOD level and the kind of texture.           *)
(***************************************************************************)
InitTarget ==
  /\ BatchIdle
  /\ node_image = [n \in Nodes |-> NoImage]
  /\ images = <<>>
  /\ quality = 90
  /\ \E s1 \in SizeItems[1], s2 \in SizeItems[2], s3 \in SizeItems[3],
        s4 \in SizeItems[4], r \in BOOLEAN, p \in BOOLEAN,
        l \in TexLevels, n \in BOOLEAN :
       tx = [pc |-> "target", level |-> l, is_normal |-> n,
             cfg |-> [embed |-> FALSE, resize |-> r, preserve |-> p,
                      sizes |-> <<s1, s2, s3, s4>>, texture_quality |-> 85],
             target_size |-> 0, adjusted_target_size |-> 0]

\* lines 1578-1592 and 1642-1652 of save_external_textures
Target ==
  /\ tx.pc = "target"
  /\ tx' = [tx EXCEPT
       !.pc = "targeted",
       !.target_size = nominal_target_size(tx.cfg, tx.level),
       !.adjusted_target_size =
          adjusted_target_size(tx.cfg, tx.level, tx.is_normal)]
  /\ UNCHANGED <<sceneVars, scene_props, fsDirs, files, dataVars, pc, ex, loc, selVars,
                 hist, fh, images, node_image, quality>>

SpecTarget == InitTarget /\ [][Target]_vars

----------------------------------------------------------------------------
(***************************************************************************)
(* operators.py: apply_decimate_modifier, called at one level of the LOD   *)
(* chain with arguments of any kind                                        *)
(***************************************************************************)
\* str.upper() on the strings explored
upper(str) ==
  CASE str = "x" -> "X"
    [] str = "collapse" -> "COLLAPSE"
    [] OTHER -> str

\* apply_decimate_modifier(obj, ratio, decimate_type, sym_axis, sym): the
\* outcomes, for an object of type obj_type ("NONE" for no object) with the
\* modifiers mods and a polygon count of poly.  raised is the class of the
\* exception that leaves the call ("" when it returns).
apply_decimate_modifier(obj_type, mods, poly, ratio, decimate_type, sym_axis, sym) ==
  IF obj_type # "MESH"
  THEN {[raised |-> "", modifiers |-> mods, poly |-> poly]}
  ELSE IF upper(decimate_type) = "COLLAPSE" /\ sym
          /\ upper(sym_axis) \notin {"X", "Y", "Z"}
  THEN \* obj.modifiers.remove(dec_mod); raise ValueError(...)
       {[raised |-> "ValueError", modifiers |-> mods, poly |-> poly]}
  ELSE { \* modifier_apply went through; a type other than COLLAPSE works
         \* with the defaults of the modifier
         [raised |-> "", modifiers |-> mods,
          poly |-> IF upper(decimate_type) = "COLLAPSE"
                   THEN decimated(poly, ratio) ELSE poly],
         \* modifier_apply raised: the modifier is removed
         [raised |-> "RuntimeError", modifiers |-> mods, poly |-> poly] }

\* the classes that except Exception catches
IsException(class) ==
  class \in {"ValueError", "RuntimeError", "ValidationError", "ReferenceError",
             "AttributeError"}

\* level 1 of the chain is about to decimate the retained copy
InitDecimate ==
  /\ SceneIdle
  /\ TexIdle
  /\ objects = {CopyId(1)}
  /\ meshes = {CopyId(1)}
  /\ \E obj_type \in {"MESH", "NONE"}, mods \in {{}, {"Armature"}},
        ratio \in 1..RatioScale,
        decimate_type \in {"COLLAPSE", "collapse", "UNSUBDIV"},
        sym_axis \in {"X", "x", "Z", "W", ""}, sym \in BOOLEAN :
       loc = [at |-> "call", obj_type |-> obj_type, modifiers |-> mods,
              poly |-> <<1, 1>>, ratio |-> <<ratio, RatioScale>>,
              decimate_type |-> decimate_type, sym_axis |-> sym_axis,
              sym |-> sym, raised |-> "", lod_level |-> 1,
              failures |-> <<>>, before |-> [modifiers |-> mods, poly |-> <<1, 1>>]]

\* apply_decimate_modifier(base_lod_obj, progressive_ratio, ...)
ApplyDecimate ==
  /\ loc.at = "call"
  /\ \E out \in apply_decimate_modifier(loc.obj_type, loc.modifiers, loc.poly,
                                        loc.ratio, loc.decimate_type,
                                        loc.sym_axis, loc.sym) :
       loc' = [loc EXCEPT !.at = IF out.raised = "" THEN "returned" ELSE "raised",
                          !.raised = out.raised,
                          !.modifiers = out.modifiers,
                          !.poly = out.poly]
  /\ UNCHANGED <<sceneVars, scene_props, fsDirs, files, dataVars, pc, ex, selVars,
                 hist, fh, texVars>>

\* except Exception as lod_e: failed_exports.append(...); break
DecimateExcept ==
  /\ loc.at = "raised"
  /\ IsException(loc.raised)
  /\ loc' = [loc EXCEPT !.at = "break",
                        !.failures = Append(@, Failure(1, "LOD", loc.lod_level))]
  /\ UNCHANGED <<sceneVars, scene_props, fsDirs, files, dataVars, pc, ex, selVars,
                 hist, fh, texVars>>

\* the level goes on to its export
DecimateDone ==
  /\ loc.at = "returned"
  /\ loc' = [loc EXCEPT !.at = "export"]
  /\ UNCHANGED <<sceneVars, scene_props, fsDirs, files, dataVars, pc, ex, selVars,
                 hist, fh, texVars>>

NextDecimate ==
  \/ ApplyDecimate
  \/ DecimateExcept
  \/ DecimateDone

SpecDecimate == InitDecimate /\ [][NextDecimate]_vars

----------------------------------------------------------------------------
(***************************************************************************)
(* operators.py: cleanup_object, called any number of times on None and on *)
(* the copies of the scene                                                 *)
(***************************************************************************)
\* except ReferenceError only
caught_by_cleanup_reference_only(class) == class = "ReferenceError"

\* except (ReferenceError, Exception) as remove_e
caught_by_cleanup(class) == class = "ReferenceError" \/ IsException(class)

\* cleanup_object(obj, obj_name_for_log): the outcomes.  data tells what
\* obj.data is: "own" for a mesh with this object as its only user, "shared"
\* for a mesh with other users, "none" for no data.  thrown is the exception
\* met inside the try block ("" for none).
cleanup_object_outcomes(obj, data, objs, mshs) ==
  IF obj = None
  THEN {[objects |-> objs, meshes |-> mshs, thrown |-> ""]}
  ELSE IF obj \notin objs
  THEN \* a reference to a removed object: it is false, or obj.data raises
       {[objects |-> objs, meshes |-> mshs, thrown |-> ""],
        [objects |-> objs, meshes |-> mshs, thrown |-> "ReferenceError"]}
  ELSE IF data = "none"
  THEN \* mesh_data.users on None
       {[objects |-> objs, meshes |-> mshs, thrown |-> "AttributeError"]}
  ELSE {[objects |-> objs \ {obj},
         meshes |-> IF data = "own" THEN mshs \ {obj} ELSE mshs,
         thrown |-> ""],
        \* bpy.data.objects.remove raised
        [objects |-> objs, meshes |-> mshs, thrown |-> "RuntimeError"]}
       \cup
       \* bpy.data.meshes.remove raised in the inner try block
       (IF data = "own"
        THEN {[objects |-> objs \ {obj}, meshes |-> mshs, thrown |-> ""]}
        ELSE {})

\* the copies of the scene and what they hold, before any call
InitCleanup ==
  /\ SceneIdle
  /\ TexIdle
  /\ \E data \in [{CopyId(o) : o \in Objs} -> {"own", "shared", "none"}] :
       /\ objects = DOMAIN data
       /\ meshes = {c \in DOMAIN data : data[c] = "own"}
       /\ loc = [data |-> data, calls |-> 0, obj |-> None,
                 disposed |-> FALSE, raised |-> "", removed |-> {}]

\* one call cleanup_object(obj, ...), on None or on a copy
CleanupCall ==
  /\ loc.calls <= MaxCalls
  /\ \E obj \in {None} \cup DOMAIN loc.data :
       \E out \in cleanup_object_outcomes(
                     obj, IF obj = None THEN "none" ELSE loc.data[obj],
                     objects, meshes) :
         /\ objects' = out.objects
         /\ meshes' = out.meshes
         /\ loc' = [loc EXCEPT
               !.calls = @ + 1,
               !.obj = obj,
               !.disposed = obj # None /\ obj \notin objects,
               !.raised = IF caught_by_cleanup(out.thrown) THEN "" ELSE out.thrown,
               !.removed = (objects \ out.objects) \cup (meshes \ out.meshes)]
  /\ UNCHANGED <<sceneVars, scene_props, fsDirs, files, complexity, pc, ex, selVars,
                 hist, fh, texVars>>

SpecCleanup == InitCleanup /\ [][CleanupCall]_vars

----------------------------------------------------------------------------
(***************************************************************************)
(* operators.py: sanitise_filename, apply_naming_convention and the naming *)
(* part of setup_export_object.  A string is the sequence of its           *)
(* characters.                                                             *)
(***************************************************************************)
LowerCase == <<"a", "b", "c", "d", "e", "f", "g", "h", "i", "j", "k", "l", "m",
               "n", "o", "p", "q", "r", "s", "t", "u", "v", "w", "x", "y", "z">>
UpperCase == <<"A", "B", "C", "D", "E", "F", "G", "H", "I", "J", "K", "L", "M",
               "N", "O", "P", "Q", "R", "S", "T", "U", "V", "W", "X", "Y", "Z">>
Digits == {"0", "1", "2", "3", "4", "5", "6", "7", "8", "9"}

IsLower(c) == \E k \in DOMAIN LowerCase : LowerCase[k] = c
IsUpper(c) == \E k \in DOMAIN UpperCase : UpperCase[k] = c
IsDigit(c) == c \in Digits

\* str.upper() and str.lower(), character by character
char_upper(c) ==
  IF IsLower(c) THEN UpperCase[CHOOSE k \in DOMAIN LowerCase : LowerCase[k] = c]
  ELSE c
char_lower(c) ==
  IF IsUpper(c) THEN LowerCase[CHOOSE k \in DOMAIN UpperCase : UpperCase[k] = c]
  ELSE c
str_upper(str) == [k \in DOMAIN str |-> char_upper(str[k])]
str_lower(str) == [k \in DOMAIN str |-> char_lower(str[k])]

\* str.capitalize(): the first character in upper case, the others in lower
capitalize(str) ==
  [k \in DOMAIN str |-> IF k = 1 THEN char_upper(str[k]) ELSE char_lower(str[k])]

\* str.replace and re.sub of a set of characters by one character
replace_chars(str, chars, by) ==
  [k \in DOMAIN str |-> IF str[k] \in chars THEN by ELSE str[k]]

\* the index of the first occurrence of sub in str, 0 if there is none
find(str, sub) ==
  LET at == {k \in 1..(Len(str) - Len(sub) + 1) :
               SubSeq(str, k, k + Len(sub) - 1) = sub}
  IN IF at = {} THEN 0 ELSE CHOOSE k \in at : \A l \in at : k <= l

\* str.split(sep) for a separator of one character: the parts, empty ones
\* included
RECURSIVE split(_, _)
split(str, sep) ==
  LET k == find(str, <<sep>>)
  IN IF k = 0 THEN <<str>>
     ELSE <<SubSeq(str, 1, k - 1)>> \o split(SubSeq(str, k + 1, Len(str)), sep)

\* the parts that are not empty
NonEmpty(parts) == SelectSeq(parts, LAMBDA part : part # <<>>)

\* sep.join(parts)
RECURSIVE join(_, _)
join(parts, sep) ==
  IF parts = <<>> THEN <<>>
  ELSE IF Len(parts) = 1 THEN parts[1]
  ELSE parts[1] \o sep \o join(Tail(parts), sep)

\* the characters sanitise_filename replaces: \ / : * ? " < > | .
IllegalChars == {"\\", "/", ":", "*", "?", "\"", "<", ">", "|", "."}

\* sanitise_filename(name)
sanitise_filename(name) == replace_chars(name, IllegalChars, "_")

\* known_prefixes of the UNREAL branch
known_prefixes ==
  {<<"S", "M">>, <<"S", "K">>, <<"B", "P">>, <<"M">>, <<"T">>, <<"M", "T">>,
   <<"M", "I">>, <<"A">>, <<"S">>, <<"E">>, <<"W">>, <<"P">>}

\* the UNREAL branch.  word.capitalise() is no method of str: with one word
\* or more the join raises AttributeError and the except clause returns
\* sanitise_filename(name)
unreal_name(name) ==
  LET temp_name == replace_chars(name, IllegalChars \cup {"-"}, " ")
      k == find(temp_name, <<"_">>)
      part0 == SubSeq(temp_name, 1, k - 1)
      known == /\ k # 0
               /\ Len(temp_name) > 4
               /\ str_upper(part0) \in known_prefixes
      prefix == IF known THEN str_upper(part0) \o <<"_">> ELSE <<>>
      rest == IF known THEN SubSeq(temp_name, k + 1, Len(temp_name)) ELSE temp_name
      words == NonEmpty(split(replace_chars(rest, {"_"}, " "), " "))
  IN IF words # <<>> THEN sanitise_filename(name)
     ELSE IF prefix # <<>> THEN prefix
     ELSE <<"U", "n", "n", "a", "m", "e", "d">>

\* the UNITY branch: the parts between underscores, capitalised; joining
\* the parts that are not empty does what re.sub(r'_+', '_') and strip('_')
\* do before
unity_name(name) ==
  LET temp_name == replace_chars(sanitise_filename(name), {" "}, "_")
      parts == NonEmpty(split(temp_name, "_"))
      result == join([k \in DOMAIN parts |-> capitalize(parts[k])], <<"_">>)
  IN IF result # <<>> THEN result ELSE sanitise_filename(name)

\* [a-z], [A-Z], [0-9] or none of them
char_class(c) ==
  IF IsLower(c) THEN "a-z" ELSE IF IsUpper(c) THEN "A-Z"
  ELSE IF IsDigit(c) THEN "0-9" ELSE ""

\* the end of the run of characters of the class of str[k] that starts at k
RECURSIVE run_end(_, _)
run_end(str, k) ==
  IF k < Len(str) /\ char_class(str[k + 1]) = char_class(str[k])
  THEN LET e == run_end(str, k + 1) IN e
  ELSE k

\* re.findall(r'[A-Z]*[a-z]+|[A-Z]+(?=[A-Z][a-z]|\b)|[A-Z]|[0-9]+', str) from
\* position k on.  After a run of capitals: small letters make one word
\* with them (first alternative); the end of the string or a character
\* that is no letter, digit or underscore is a word boundary (second); else
\* the capital stands alone (third).
RECURSIVE findall_words(_, _)
findall_words(str, k) ==
  IF k > Len(str) THEN <<>>
  ELSE IF IsLower(str[k])
  THEN LET e == run_end(str, k)
       IN <<SubSeq(str, k, e)>> \o findall_words(str, e + 1)
  ELSE IF IsUpper(str[k])
  THEN LET u == run_end(str, k)
       IN IF u < Len(str) /\ IsLower(str[u + 1])
          THEN LET e == run_end(str, u + 1)
               IN <<SubSeq(str, k, e)>> \o findall_words(str, e + 1)
          ELSE IF u = Len(str) \/ ~(IsDigit(str[u + 1]) \/ str[u + 1] = "_")
          THEN <<SubSeq(str, k, u)>> \o findall_words(str, u + 1)
          ELSE <<SubSeq(str, k, k)>> \o findall_words(str, k + 1)
  ELSE IF IsDigit(str[k])
  THEN LET e == run_end(str, k)
       IN <<SubSeq(str, k, e)>> \o findall_words(str, e + 1)
  ELSE findall_words(str, k + 1)

\* the GODOT branch
godot_name(name) ==
  LET temp_name == replace_chars(name, IllegalChars \cup {"-", "_"}, " ")
      words == findall_words(temp_name, 1)
      result == join([k \in DOMAIN words |-> str_lower(words[k])], <<"_">>)
  IN IF result # <<>> THEN result
     ELSE replace_chars(str_lower(sanitise_filename(name)), {" "}, "_")

\* apply_naming_convention(name, convention)
apply_naming_convention(name, convention) ==
  CASE convention = "DEFAULT" -> sanitise_filename(name)
    [] convention = "UNREAL" -> unreal_name(name)
    [] convention = "UNITY" -> unity_name(name)
    [] convention = "GODOT" -> godot_name(name)
    [] OTHER -> sanitise_filename(name)

\* "_LOD"
LOD_MARK == <<"_", "L", "O", "D">>

\* original_obj_name.split("_LOD")[0] if "_LOD" in original_obj_name
strip_lod_suffix(name) ==
  LET k == find(name, LOD_MARK)
  IN IF k # 0 THEN SubSeq(name, 1, k - 1) ELSE name

max_base_length == 100

\* prefix + original_obj_name + suffix, before the truncation
combined_name(name, convention, prefix, suffix) ==
  prefix \o apply_naming_convention(strip_lod_suffix(name), convention) \o suffix

\* base_name of setup_export_object
base_name(name, convention, prefix, suffix) ==
  LET combined == combined_name(name, convention, prefix, suffix)
  IN IF Len(combined) > max_base_length
     THEN SubSeq(combined, 1, max_base_length - 3) \o <<".", ".", ".">>
     ELSE combined

\* lod_level is None
NoLevel == -1

\* f"{lod_level:02d}"
format_02d(n) ==
  LET DigitChars == <<"0", "1", "2", "3", "4", "5", "6", "7", "8", "9">>
  IN <<DigitChars[(n \div 10) + 1], DigitChars[(n % 10) + 1]>>

\* final_name of setup_export_object
final_name(base, lod_level) ==
  IF lod_level = NoLevel THEN base ELSE base \o LOD_MARK \o format_02d(lod_level)

\* obj.name after obj.name = name: Blender keeps the names of the objects
\* unique and numbers a name that another object has
object_name(name, taken) ==
  IF name \in taken THEN name \o <<".", "0", "0", "1">> ELSE name

\* the pieces the names explored are made of
NamePieces == {<<"a">>, <<"B">>, <<"1">>, <<"_">>, <<".">>, <<" ">>, <<"-">>,
               <<"L", "O", "D">>, <<"S", "M", "_">>}

RECURSIVE NamesOf(_)
NamesOf(n) ==
  IF n = 0 THEN {<<>>}
  ELSE LET shorter == NamesOf(n - 1)
       IN shorter \cup {x \o piece : x \in shorter, piece \in NamePieces}

\* the names of the source objects explored: Blender gives no object an
\* empty name
Names == NamesOf(MaxPieces) \ {<<>>}

\* the prefix and the suffix explored: none, some with characters that
\* sanitise_filename replaces, and a prefix that fills all of the base name
\* but one character
Affixes ==
  {[prefix |-> <<>>, suffix |-> <<>>],
   [prefix |-> <<"a", "/">>, suffix |-> <<".", "s">>],
   [prefix |-> [k \in 1..(max_base_length - 1) |-> "x"], suffix |-> <<>>]}

\* setup_export_object is about to be called for a copy of the object
\* named name
InitNaming ==
  /\ SceneIdle
  /\ TexIdle
  /\ objects = {CopyId(1)}
  /\ meshes = {CopyId(1)}
  /\ \E name \in Names, convention \in {"DEFAULT", "UNREAL", "UNITY", "GODOT"},
        affix \in Affixes, lod_level \in {NoLevel, 1, 12} :
       loc = [at |-> "call", name |-> name, convention |-> convention,
              prefix |-> affix.prefix, suffix |-> affix.suffix,
              lod_level |-> lod_level, base_name |-> <<>>, final_name |-> <<>>,
              returned_name |-> <<>>, first_base_name |-> <<>>]

\* the naming part of setup_export_object(obj, original_obj_name, scene_props,
\* lod_level), up to obj.name = final_name; the name of the source object
\* is taken
SetupName(original_obj_name, next) ==
  LET base == base_name(original_obj_name, loc.convention, loc.prefix, loc.suffix)
      final == final_name(base, loc.lod_level)
  IN /\ loc' = [loc EXCEPT !.at = next,
                           !.base_name = base,
                           !.final_name = final,
                           !.returned_name = object_name(final, {loc.name}),
                           !.first_base_name = loc.base_name]
     /\ UNCHANGED <<sceneVars, scene_props, fsDirs, files, dataVars, pc, ex, selVars,
                    hist, fh, texVars>>

\* the call for the source object
SetupFirst ==
  /\ loc.at = "call"
  /\ SetupName(loc.name, "named")

\* the same call for an object that carries the name the first call returned
SetupAgain ==
  /\ loc.at = "named"
  /\ SetupName(loc.returned_name, "renamed")

NextNaming ==
  \/ SetupFirst
  \/ SetupAgain

SpecNaming == InitNaming /\ [][NextNaming]_vars

(***************************************************************************)
(* Two source objects of one batch and the files their exports write.      *)
(***************************************************************************)
\* the file name, without directory and extension, that the export of the
\* object named name writes: base_name in the single-shot path, the name
\* of the renamed working copy in the LOD chain
export_file_stem(name, convention, prefix, suffix, lod_level, taken) ==
  LET base == base_name(name, convention, prefix, suffix)
  IN IF lod_level = NoLevel THEN base
     ELSE object_name(final_name(base, lod_level), taken)

\* two selected objects with the names Blender lets them have, which differ;
\* the batch runs single-shot or exports LOD0 of a chain
InitBatchNames ==
  /\ SceneIdle
  /\ TexIdle
  /\ objects = {}
  /\ meshes = {}
  /\ \E name1, name2 \in NamesOf(MaxPieces - 1) \ {<<>>},
        convention \in {"DEFAULT", "UNREAL", "UNITY", "GODOT"},
        lod_level \in {NoLevel, 0} :
       /\ name1 # name2
       /\ loc = [names |-> <<name1, name2>>, convention |-> convention,
                 lod_level |-> lod_level, index |-> 1, written |-> <<>>,
                 success_count |-> 0]

\* the per-object call of execute for the next object, every step succeeding:
\* the file is written, replacing a file of that name, and counted
ExportNamed ==
  /\ loc.index <= Len(loc.names)
  /\ loc' = [loc EXCEPT
        !.index = @ + 1,
        !.written = Append(@, export_file_stem(loc.names[loc.index], loc.convention,
                                               <<>>, <<>>, loc.lod_level,
                                               {loc.names[1], loc.names[2]})),
        !.success_count = @ + 1]
  /\ UNCHANGED <<sceneVars, scene_props, fsDirs, files, dataVars, pc, ex, selVars,
                 hist, fh, texVars>>

SpecBatchNames == InitBatchNames /\ [][ExportNamed]_vars

(***************************************************************************)
(* operators.py: the export scale of setup_export_object.  Scales are      *)
(* counted in thousandths.                                                 *)
(***************************************************************************)
\* 1.0
One == 1000

\* min and max of mesh_export_scale
SCALE_MIN == 1
SCALE_MAX == 1000000

\* the values of mesh_export_scale explored
Scales == {SCALE_MIN, 10, 500, One, 1500, 2000, 100000, SCALE_MAX}

\* final_scale_factor with the reset to 1.0 for GLTF only
final_scale_factor_gltf_only(mesh_export_scale, mesh_export_units, mesh_export_format) ==
  IF mesh_export_format = "GLTF" THEN One
  ELSE IF mesh_export_units = "CENTIMETERS" THEN mesh_export_scale * 100
  ELSE mesh_export_scale

\* final_scale_factor of setup_export_object
final_scale_factor(mesh_export_scale, mesh_export_units, mesh_export_format) ==
  IF mesh_export_format \in {"GLTF", "USD"} THEN One
  ELSE IF mesh_export_units = "CENTIMETERS" THEN mesh_export_scale * 100
  ELSE mesh_export_scale

InitScale ==
  /\ SceneIdle
  /\ TexIdle
  /\ objects = {CopyId(1)}
  /\ meshes = {CopyId(1)}
  /\ \E scale \in Scales, units \in {"METERS", "CENTIMETERS"},
        format \in {"FBX", "OBJ", "GLTF", "USD", "STL"} :
       loc = [at |-> "call", mesh_export_scale |-> scale,
              mesh_export_units |-> units, mesh_export_format |-> format,
              export_scale |-> 0, path |-> "", global_scale |-> <<>>]

\* setup_export_object from "Calculate final scale factor" to its return
SetupScale ==
  /\ loc.at = "call"
  /\ loc' = [loc EXCEPT !.at = "returned",
                        !.export_scale =
                           final_scale_factor(loc.mesh_export_scale,
                                              loc.mesh_export_units,
                                              loc.mesh_export_format)]
  /\ UNCHANGED <<sceneVars, scene_props, fsDirs, files, dataVars, pc, ex, selVars,
                 hist, fh, texVars>>

\* the global_scale export_object hands to the exporter of the format: the
\* glTF and the USD exporter are called without a scale
export_object_global_scale(fmt, export_scale) ==
  IF fmt \in {"FBX", "OBJ", "STL"} THEN <<export_scale>> ELSE <<>>

\* the global_scale of the FBX export of _process_object_hierarchy_export
hierarchy_global_scale(mesh_export_scale) == <<mesh_export_scale>>

\* _process_single_export and _process_lod_export: export_object(obj,
\* file_path, scene_props, export_scale) with the scale setup_export_object
\* returned
ExportObjectScale ==
  /\ loc.at = "returned"
  /\ loc' = [loc EXCEPT !.at = "exported",
                        !.path = "per_level",
                        !.global_scale =
                           export_object_global_scale(loc.mesh_export_format,
                                                      loc.export_scale)]
  /\ UNCHANGED <<sceneVars, scene_props, fsDirs, files, dataVars, pc, ex, selVars,
                 hist, fh, texVars>>

\* _process_object_hierarchy_export, which runs for FBX only: the export of
\* the hierarchy after setup_export_object returned for LOD0
HierarchyExportScale ==
  /\ loc.at = "returned"
  /\ loc.mesh_export_format = "FBX"
  /\ loc' = [loc EXCEPT !.at = "exported",
                        !.path = "hierarchy",
                        !.global_scale =
                           hierarchy_global_scale(loc.mesh_export_scale)]
  /\ UNCHANGED <<sceneVars, scene_props, fsDirs, files, dataVars, pc, ex, selVars,
                 hist, fh, texVars>>

NextScale ==
  \/ SetupScale
  \/ ExportObjectScale
  \/ HierarchyExportScale

SpecScale == InitScale /\ [][NextScale]_vars

----------------------------------------------------------------------------
(***************************************************************************)
(* Properties                                                              *)
(***************************************************************************)
\* how often x occurs in a log
Count(log, x) == Cardinality({i \in DOMAIN log : log[i] = x})

\* the per-object call has returned to execute
Returned == pc = "collect"
\* the path the running batch dispatches to
InHierarchy == ex.hierarchy_mode
InChain == ~ex.hierarchy_mode /\ scene_props.mesh_export_lod
InSingle == ~ex.hierarchy_mode /\ ~scene_props.mesh_export_lod

\* the working copies of source o that are alive: the duplicate made by
\* create_export_copy and the per-level copies of the hierarchy path
WorkingCopies(o) == {c \in objects : c.src = o /\ c.kind \in {"copy", "lod"}}
\* everything temporary that remains of source o
Leftovers(o) == {c \in objects \cup meshes : c.src = o}

\* the levels of o for which the LOD chain wrote a file
ExportedLevels(o) == {f.level : f \in {g \in files : g.src = o /\ g.kind = "lod"}}

\* C1: in the LOD chain path, once create_export_copy has returned a working
\* copy, cleanup_object has been called on that copy exactly once when
\* _process_lod_export returns, whatever the exit path.
C1_CopyDisposedExactlyOnce ==
  (Returned /\ InChain /\ hist.returned_copy # None)
    => Count(hist.cleanupLog, hist.returned_copy) = 1

\* C1: the LOD chain has returned after a failure at LOD0 that came before
\* base_lod_obj was assigned; the copy was never disposed and is still in
\* the scene.
C1_Witness ==
  /\ Returned /\ InChain
  /\ hist.returned_copy # None
  /\ loc.failures = <<Failure(Cur, "LOD", 0)>>
  /\ Count(hist.cleanupLog, hist.returned_copy) = 0
  /\ hist.returned_copy \in objects

C3_HierarchyLeavesNothing ==
  (Returned /\ InHierarchy) => Leftovers(Cur) = {}

\* C3: the hierarchy path has returned after a failure of the LOD0 setup and
\* the LOD0 copy is still in the scene.
C3_Witness ==
  /\ Returned /\ InHierarchy
  /\ hist.opLog = <<Op(0, "create"), Op(0, "setup")>>
  /\ loc.failures = <<Failure(Cur, "Processing failed", 0)>>
  /\ CopyId(Cur) \in objects

\* C4: when the LOD chain returns with a failure, the failure is the single
\* entry naming the level k at which the last operation was attempted, no
\* operation was attempted for a level above k, and exactly the levels
\* 0..k-1 were exported; when it returns without a failure, exactly the
\* levels 0..mesh_export_lod_count were exported.
C4_ChainStopsAtFailure ==
  (Returned /\ InChain) =>
    IF loc.failures = <<>>
    THEN /\ loc.success_count = scene_props.mesh_export_lod_count + 1
         /\ ExportedLevels(Cur) = 0..scene_props.mesh_export_lod_count
    ELSE \E k \in 0..scene_props.mesh_export_lod_count :
           /\ loc.failures = <<Failure(Cur, "LOD", k)>>
           /\ hist.opLog[Len(hist.opLog)].level = k
           /\ \A i \in DOMAIN hist.opLog : hist.opLog[i].level <= k
           /\ loc.success_count = k
           /\ ExportedLevels(Cur) = 0..(k - 1)

\* C4: the chain has returned after a failure of the decimation at a level
\* k >= 1 that is not the last level.
C4_Witness ==
  /\ Returned /\ InChain
  /\ loc.failures # <<>>
  /\ loc.failures[1].level >= 1
  /\ loc.failures[1].level < scene_props.mesh_export_lod_count
  /\ hist.opLog[Len(hist.opLog)].op = "decimate"
  /\ loc.success_count = loc.failures[1].level

\* a ratio sequence that never rises from one level to the next
NonIncreasing(seq) == \A i \in 1..(Len(seq) - 1) : seq[i] >= seq[i + 1]

\* the decimation of level loc.lod_level >= 1 has just been applied
JustDecimated ==
  /\ pc \in {"lod_triangulate", "lod_export"}
  /\ loc.lod_level >= 1

\* C5: in the LOD chain path with ratios 1.0 = r0 >= r1 >= ... >= rN, the
\* ratio applied at level i >= 1 is r_i / r_(i-1), or r_i itself when
\* r_(i-1) <= 0, and the complexity of the retained copy at level i is the
\* original complexity times r_i.
C5_ProgressiveRatio ==
  (InChain /\ NonIncreasing(ratios) /\ JustDecimated) =>
    LET r_i == ratios[loc.lod_level + 1]
        r_prev == ratios[loc.lod_level]
    IN /\ FracEq(hist.applied_ratio,
                 IF r_prev <= 0 THEN <<r_i, RatioScale>> ELSE <<r_i, r_prev>>)
       /\ FracEq(complexity, <<r_i, RatioScale>>)

\* C5: the second decimation of a strictly falling sequence of positive
\* ratios has been applied and its level is about to be exported.
C5_Witness ==
  /\ InChain
  /\ pc = "lod_export"
  /\ loc.lod_level = 2
  /\ ratios[1] > ratios[2] /\ ratios[2] > ratios[3] /\ ratios[3] > 0
  /\ FracEq(hist.applied_ratio, <<ratios[3], ratios[2]>>)

\* C6: the objects dispatched so far are the first of the filtered
\* selection, each once and in selection order; a batch that passed
\* validation ends with every object dispatched, no exception pending and
\* the result FINISHED, whatever failed on the way.
C6_EveryObjectDispatched ==
  /\ hist.dispatched =
       SubSeq(SelectSeq(selected_objects, IsExportable), 1, Len(hist.dispatched))
  /\ (pc = "done" /\ ex.objects_to_export # <<>>) =>
       /\ ex.result = "FINISHED"
       /\ ex.raised = ""
       /\ hist.dispatched = SelectSeq(selected_objects, IsExportable)

\* C6: the batch has finished although the call for its first object raised
\* a ResourceError, and the second object was dispatched and exported.
C6_Witness ==
  /\ pc = "done"
  /\ ex.result = "FINISHED"
  /\ Len(ex.objects_to_export) >= 2
  /\ ex.failed_exports =
       <<Failure(ex.objects_to_export[1], "Resource Error", 0)>>
  /\ \E f \in files : f.src = ex.objects_to_export[2]

\* C7: when execute returns CANCELLED from the validation, no object was
\* dispatched, no temporary object exists, no file was written, no object
\* was marked and no directory was created.
C7_CancelLeavesNothing ==
  (pc = "done" /\ ex.result = "CANCELLED") =>
    /\ hist.dispatched = <<>>
    /\ objects = {} /\ meshes = {} /\ files = {}
    /\ props = [o \in Objs |-> PriorProps(objType[o], o)]
    /\ colour = [o \in Objs |-> PriorColour(objType[o], o)]
    /\ hist.cancelLeftDirs = 0

\* C7: execute has returned CANCELLED and directories that os.makedirs
\* created are left on the disk.
C7_Witness ==
  /\ pc = "done"
  /\ ex.result = "CANCELLED"
  /\ hist.cancelLeftDirs > 0

\* the objects with an entry in failed_exports
FailedObjs == {ex.failed_exports[i].obj : i \in DOMAIN ex.failed_exports}

\* C8: after execute has finished, every exported object of a supported
\* type without a failure carries a record with status FRESH and the time
\* of the batch, and every object with a failure has the record and the
\* colour it had before the batch.
C8_SuccessfulObjectsFresh ==
  (pc = "done" /\ ex.result = "FINISHED") =>
    \A i \in DOMAIN ex.objects_to_export :
      LET o == ex.objects_to_export[i]
      IN IF o \notin FailedObjs
         THEN /\ props[o].mesh_export_status = <<FRESH>>
              /\ props[o].mesh_export_timestamp = <<clock>>
         ELSE /\ props[o] = PriorProps(objType[o], o)
              /\ colour[o] = PriorColour(objType[o], o)

\* C8: the batch has finished, a curve was exported without a failure and
\* carries no record.
C8_Witness ==
  /\ pc = "done"
  /\ ex.result = "FINISHED"
  /\ \E o \in Objs :
       /\ objType[o] = "CURVE"
       /\ o \notin FailedObjs
       /\ \E f \in files : f.src = o
       /\ props[o] = NoProps

\* the object carries a record
Tracked(o) == Has(props[o].mesh_export_timestamp)
\* the time since the last mark of o
Elapsed(o) == clock - Val(fh.lastMark[o])

C10_ColourRestored ==
  \A o \in Objs :
    objType[o] = "MESH" =>
      /\ ~Tracked(o) =>
           /\ colour[o] = fh.baseColour[o]
           /\ ~Has(props[o].mesh_exporter_original_colour)
      /\ Tracked(o) =>
           props[o].mesh_exporter_original_colour = <<fh.baseColour[o]>>

\* C10: a tick has just expired the record of a mesh object that was
\* re-marked while it carried a record and that was FRESH until this tick.
C10_Witness ==
  /\ fh.lastOp.op = "tick"
  /\ \E o \in Objs :
       /\ objType[o] = "MESH"
       /\ o \in fh.remarked
       /\ o \in fh.wasFresh
       /\ ~Tracked(o)
       /\ colour[o] = White

\* C11: right after MESH_OT_clear_all_indicators.execute every mesh object
\* has the colour it had before its first mark, and no object carries a
\* timestamp, a status or a saved colour: no record remains.
C11_ClearAllRestores ==
  fh.lastOp.op = "clear" =>
    \A o \in Objs :
      /\ props[o] = NoProps
      /\ objType[o] = "MESH" => colour[o] = fh.baseColour[o]

\* C11: the operator has just cleared two records at once, one FRESH and one
\* STALE, of objects whose own colours differ from the indicator colours
\* they wore.
C11_Witness ==
  /\ fh.lastOp.op = "clear"
  /\ \E a, b \in fh.cleared :
       /\ a \in fh.wasFresh /\ b \notin fh.wasFresh
       /\ colour[b] # STATUS_COLOURS[STALE]
  /\ \A o \in Objs : ~Tracked(o)

\* the records whose status differs between the two states of a step
ChangedRecords ==
  {o \in Objs : props'[o].mesh_export_status # props[o].mesh_export_status}

C13_EveryRecordExpires ==
  \A o \in Objs :
    /\ [](Tracked(o) => is_registered)
    /\ Tracked(o) ~> (~Tracked(o) /\ colour[o] = fh.baseColour[o]
                                  /\ props[o] = NoProps)

\* C13: a tick has just removed the record of a mesh object whose last mark
\* lies the whole STALE window back, restoring its colour, and the timer is
\* still registered.
C13_Witness ==
  /\ fh.lastOp.op = "tick"
  /\ is_registered
  /\ \E o \in Objs :
       /\ Has(fh.lastMark[o])
       /\ clock - Val(fh.lastMark[o]) >= STALE_DURATION_SECONDS
       /\ props[o] = NoProps
       /\ colour[o] = fh.baseColour[o]

\* export_object has returned from a call that saved external textures
ReturnedExternal == tx.pc = "returned" /\ ~tx.cfg.embed

\* C14: when export_object returns from a call with external textures,
\* whether the exporter wrote the artifact, raised or did not know the format,
\* every image-texture node references the image it referenced before the
\* call.
C14_NodesRestored ==
  ReturnedExternal => node_image = tx.before.node_image

\* C14: export_object has returned after the exporter raised; the one
\* material of the object sits in two slots, its nodes share one image, and
\* both nodes were rewired to loaded images during the call.
C14_Witness ==
  /\ ReturnedExternal
  /\ tx.outcome = "raised"
  /\ tx.slots = <<1, 1>>
  /\ \A n \in Nodes : node_image[n] = ImgName(1)
  /\ DOMAIN tx.original_references = Nodes

\* the images that exist now and did not exist before the call
Leaked == DOMAIN images \ DOMAIN tx.before.images

\* C15: when export_object returns from a call with external textures, also
\* after a failed save or a failed exporter, the images that exist are the
\* images that existed before the call: no resized temporary copy and no
\* loaded external image is left.
C15_NoDerivativeLeft ==
  ReturnedExternal => DOMAIN images = DOMAIN tx.before.images

\* C15: export_object has returned from a call in which the save of a
\* resized texture raised, every node references its image again, and the
\* resized temporary copy is still among the images.
C15_Witness ==
  /\ ReturnedExternal
  /\ tx.save_raised
  /\ node_image = tx.before.node_image
  /\ \E x \in Leaked : endswith(x, "_temp_resize")

\* save_external_textures has returned to export_object
TexturesSaved == ~tx.cfg.embed /\ tx.pc # "idle" /\ tx.queue = <<>>

\* the images of the file whose attributes differ from before the call
ChangedOriginals ==
  {x \in DOMAIN tx.before.images : images[x] # tx.before.images[x]}

\* C16: after save_external_textures has returned, with or without a resize
\* and whether or not a save raised, every image of the file has the
\* dimensions, file path and file format it had before the call, and the
\* scene's image quality is what it was.
C16_OriginalsUntouched ==
  TexturesSaved => (ChangedOriginals = {} /\ quality = tx.before.quality)

\* C16: save_external_textures has returned with every save succeeded, and
\* an image of the file that needed no resize has another file format than
\* before the call.
C16_Witness ==
  /\ TexturesSaved
  /\ ~tx.save_raised
  /\ quality = tx.before.quality
  /\ \E x \in ChangedOriginals :
       /\ images[x].file_format # tx.before.images[x].file_format
       /\ images[x].filepath = tx.before.images[x].filepath
       /\ images[x].w = tx.before.images[x].w

\* C17: an image of w x h pixels, w, h >= 1, is resized for target size T
\* only if w > T or h > T; the new dimensions then are at least 1, at most
\* the old ones, and the larger of them is T; an image with w <= T and
\* h <= T keeps its dimensions.
C17_ResizeBounds ==
  tx.pc = "sized" =>
    LET larger == IF tx.new[1] > tx.new[2] THEN tx.new[1] ELSE tx.new[2]
    IN /\ tx.scaled <=> (tx.w > tx.T \/ tx.h > tx.T)
       /\ tx.scaled =>
            /\ 1 <= tx.new[1] /\ tx.new[1] <= tx.w
            /\ 1 <= tx.new[2] /\ tx.new[2] <= tx.h
            /\ larger = tx.T
       /\ ~tx.scaled => tx.new = <<tx.w, tx.h>>

\* C17: a very flat image, wider than the target, has been resized: its
\* width is the target and its height, which the division rounds to 0, is 1.
C17_Witness ==
  /\ tx.pc = "sized"
  /\ tx.scaled
  /\ tx.T * tx.h < tx.w
  /\ tx.new = <<tx.T, 1>>

\* C18: every image that served as the source of a derivative has data and a
\* width and height other than zero, and is an image of the file, not itself
\* a derivative made by an earlier step.
C18_SourcesAreOriginals ==
  \A x \in tx.sources :
    /\ x.suffix = <<>>
    /\ images[x].has_data /\ images[x].w # 0 /\ images[x].h # 0

\* C18: after two compress_textures calls a node uses a copy of a copy: an
\* image whose name carries two _LOD suffixes.
C18_Witness ==
  /\ tx.pc = "compress"
  /\ tx.calls = 2
  /\ \E n \in Nodes : Len(node_image[n].suffix) = 2

\* C19: for a normal map, with resizing and preservation on, the effective
\* target size at a level of 2 or more is at least the nominal size of that
\* level, whatever the four sizes are set to; at LOD1 it is the nominal LOD1
\* size, and at LOD0 there is no target.
C19_NormalMapPromoted ==
  (tx.pc = "targeted" /\ tx.is_normal /\ tx.cfg.resize /\ tx.cfg.preserve) =>
    /\ tx.level >= 2 => tx.adjusted_target_size >= tx.cfg.sizes[tx.level]
    /\ tx.level = 1 => tx.adjusted_target_size = tx.cfg.sizes[1]
    /\ tx.level = 0 => tx.adjusted_target_size = 0

\* C19: the target of a normal map at LOD2 has been computed with LOD1 set
\* to 1024 and LOD2 set to 4096: the effective size is the LOD1 size, which
\* is smaller than the nominal size of LOD2.
C19_Witness ==
  /\ tx.pc = "targeted" /\ tx.is_normal /\ tx.cfg.resize /\ tx.cfg.preserve
  /\ tx.level = 2
  /\ tx.target_size = tx.cfg.sizes[2]
  /\ tx.adjusted_target_size = tx.cfg.sizes[1]
  /\ tx.adjusted_target_size < tx.target_size

\* the nodes whose image is not the one they had when export_object was
\* called
RewiredNodes ==
  {n \in Nodes : tx.pc # "idle" /\ node_image[n] # tx.before.node_image[n]}

\* C20: the texture rewiring acts only on materials that the working copy
\* owns alone: no material it rewired is referenced by the source object,
\* and at no moment of the call does a node of a material of the source
\* object reference another image than before.
C20_OnlyOwnDataMutated ==
  /\ tx.rewired \cap tx.source_materials = {}
  /\ \A n \in RewiredNodes : tx.node_mat[n] \notin tx.source_materials

\* C20: save_external_textures has returned and the exporter is about to
\* run; a node of a material that the source object references too points
\* at a loaded external image.
C20_Witness ==
  /\ TexturesSaved
  /\ tx.pc = "save"
  /\ \E n \in RewiredNodes :
       /\ tx.node_mat[n] \in tx.source_materials
       /\ endswith(node_image[n], "_external")

\* the selection and the active object are those of the invocation
SelectionAsBefore ==
  /\ selected = {SrcId(o) : o \in Objs}
  /\ active = SrcId(1)

\* C21: after execute returns, in every dispatch path and on success or
\* failure of any object, the set of selected objects and the active object
\* are the same as before the batch.
C21_SelectionRestored ==
  pc = "done" => SelectionAsBefore

\* C21: a batch in the LOD hierarchy path has returned FINISHED with every
\* object exported and nothing is selected nor active any more.
C21_Witness ==
  /\ pc = "done"
  /\ ex.result = "FINISHED"
  /\ ex.hierarchy_mode
  /\ ex.failed_exports = <<>>
  /\ ex.successful_exports > 0
  /\ selected = {}
  /\ active = None

\* apply_decimate_modifier was called with symmetry on and an axis that is
\* none of X, Y, Z, whatever its case
InvalidAxisCall ==
  /\ loc.at # "call"
  /\ loc.sym
  /\ upper(loc.sym_axis) \notin {"X", "Y", "Z"}

\* C22: apply_decimate_modifier called with symmetry enabled and an axis
\* outside {X, Y, Z} fails with a ValidationError, leaves no decimate
\* modifier on the copy and the geometry unchanged; the failure is recorded
\* for the level and only this operation is aborted.
C22_InvalidAxisIsValidationError ==
  InvalidAxisCall =>
    /\ loc.raised = "ValidationError"
    /\ loc.modifiers = loc.before.modifiers
    /\ loc.poly = loc.before.poly
    /\ loc.at = "break" => loc.failures = <<Failure(1, "LOD", loc.lod_level)>>

\* C22: the call on a mesh, with COLLAPSE, symmetry and the axis "W", was
\* left by a ValueError, and the level recorded its failure.
C22_Witness ==
  /\ InvalidAxisCall
  /\ loc.obj_type = "MESH"
  /\ loc.decimate_type = "COLLAPSE"
  /\ loc.sym_axis = "W"
  /\ loc.raised = "ValueError"
  /\ loc.at = "break"
  /\ loc.modifiers = loc.before.modifiers
  /\ loc.poly = loc.before.poly
  /\ loc.failures = <<Failure(1, "LOD", 1)>>

\* C23: a call of cleanup_object on a copy that an earlier call disposed
\* of, on None, or on a copy without data, removes nothing and lets no
\* exception out.
C23_CleanupIdempotent ==
  (loc.calls > 0 /\ (loc.disposed \/ loc.obj = None \/ loc.data[loc.obj] = "none")) =>
    /\ loc.raised = ""
    /\ loc.removed = {}

\* C23: the latest of at least two calls was made on a copy that was gone
\* already, together with its mesh.
C23_Witness ==
  /\ loc.calls >= 2
  /\ loc.disposed
  /\ loc.data[loc.obj] = "own"
  /\ loc.obj \notin objects \cup meshes
  /\ loc.raised = ""
  /\ loc.removed = {}

\* the characters of a string
Chars(str) == {str[k] : k \in DOMAIN str}

\* C24: for every non-empty source name, every naming convention and every
\* prefix and suffix, the base name computed by setup_export_object is not
\* empty.
C24_BaseNameNonEmpty ==
  loc.at = "named" => loc.base_name # <<>>

\* C24: the object named "_LOD1" was named under DEFAULT with no prefix and
\* no suffix, and its base name is empty.
C24_Witness ==
  /\ loc.at = "named"
  /\ loc.name = LOD_MARK \o <<"1">>
  /\ loc.convention = "DEFAULT"
  /\ loc.prefix = <<>> /\ loc.suffix = <<>>
  /\ loc.base_name = <<>>

\* C25: the base name and the name that setup_export_object returns hold
\* none of the characters that sanitise_filename replaces, with the prefix
\* and the suffix attached and after the truncation.
C25_NoIllegalCharacter ==
  loc.at = "named" =>
    (Chars(loc.base_name) \cup Chars(loc.returned_name)) \cap IllegalChars = {}

\* C25: a name without any such character got the prefix "a/" and its base
\* name holds the slash.
C25_Witness ==
  /\ loc.at = "named"
  /\ loc.name = <<"a">>
  /\ loc.prefix = <<"a", "/">>
  /\ "/" \in Chars(loc.base_name)
  /\ "/" \in Chars(loc.returned_name)

\* C26: with no prefix and no suffix, naming a name that an earlier run
\* produced with an LOD index gives the base name of the earlier run.
C26_NamingIdempotent ==
  (loc.at = "renamed" /\ loc.prefix = <<>> /\ loc.suffix = <<>>
     /\ loc.lod_level # NoLevel) =>
    loc.base_name = loc.first_base_name

\* C26: "a.LOD" was named "a_LOD_LOD01" under DEFAULT, and naming that name
\* gave the base name "a".
C26_Witness ==
  /\ loc.at = "renamed"
  /\ loc.name = <<"a", ".", "L", "O", "D">>
  /\ loc.convention = "DEFAULT"
  /\ loc.prefix = <<>> /\ loc.suffix = <<>>
  /\ loc.lod_level = 1
  /\ loc.first_base_name = <<"a">> \o LOD_MARK
  /\ loc.base_name = <<"a">>

\* C27: the base name has at most 100 characters; a combined name of more
\* is cut to its first 97 characters and "..."; the name returned is the
\* base name followed by _LOD and the index in two digits when an index is
\* given, the base name otherwise.
C27_TruncationAndLodSuffix ==
  loc.at = "named" =>
    LET combined == combined_name(loc.name, loc.convention, loc.prefix, loc.suffix)
    IN /\ Len(loc.base_name) <= 100
       /\ Len(combined) > 100 =>
            loc.base_name = SubSeq(combined, 1, 97) \o <<".", ".", ".">>
       /\ Len(combined) <= 100 => loc.base_name = combined
       /\ loc.lod_level = NoLevel => loc.returned_name = loc.base_name
       /\ loc.lod_level = 1 =>
            loc.returned_name = loc.base_name \o LOD_MARK \o <<"0", "1">>
       /\ loc.lod_level = 12 =>
            loc.returned_name = loc.base_name \o LOD_MARK \o <<"1", "2">>

\* C27: the object "a" was set up without LOD index, prefix or suffix under
\* DEFAULT: the base name is "a", the name of the source object, and the
\* name returned is "a.001".
C27_Witness ==
  /\ loc.at = "named"
  /\ loc.name = <<"a">>
  /\ loc.convention = "DEFAULT"
  /\ loc.lod_level = NoLevel
  /\ loc.base_name = <<"a">>
  /\ loc.returned_name = <<"a", ".", "0", "0", "1">>

\* C28: the export scale that setup_export_object returns is greater than
\* 0; it is 1.0 for GLTF and USD whatever the scale setting and the units;
\* for FBX, OBJ and STL it is the scale setting times 100 with CENTIMETERS
\* and the scale setting itself with METERS.
C28_EffectiveScale ==
  loc.at = "returned" =>
    /\ loc.export_scale > 0
    /\ loc.mesh_export_format \in {"GLTF", "USD"} => loc.export_scale = One
    /\ loc.mesh_export_format \in {"FBX", "OBJ", "STL"} =>
         loc.export_scale = IF loc.mesh_export_units = "CENTIMETERS"
                            THEN loc.mesh_export_scale * 100
                            ELSE loc.mesh_export_scale

\* C28: USD with a scale setting of 2.0 in centimetres came out as 1.0.
C28_Witness ==
  /\ loc.at = "returned"
  /\ loc.mesh_export_format = "USD"
  /\ loc.mesh_export_units = "CENTIMETERS"
  /\ loc.mesh_export_scale = 2 * One
  /\ loc.export_scale = One

\* the operations of the LOD chain for the levels 0..n, in the order of the
\* claim
RECURSIVE ChainOps(_)
ChainOps(n) ==
  IF n = 0
  THEN <<Op(0, "create"), Op(0, "setup"), Op(0, "modifiers")>>
       \o (IF scene_props.mesh_export_tri THEN <<Op(0, "triangulate")>> ELSE <<>>)
       \o <<Op(0, "export")>>
  ELSE ChainOps(n - 1) \o <<Op(n, "setup"), Op(n, "decimate"), Op(n, "export")>>

StatusRank(p) ==
  IF ~Has(p.mesh_export_timestamp) THEN 2
  ELSE IF p.mesh_export_status = <<FRESH>> THEN 0
  ELSE IF p.mesh_export_status = <<STALE>> THEN 1
  ELSE 2

\* C30: the clock never goes back, and a step that is no mark of the object
\* never moves its stored status backwards along FRESH, STALE, expired: a
\* tick turns no STALE record FRESH and re-creates no expired record, and a
\* tick that runs once the STALE window is over expires the record, a FRESH
\* one included.
C30_StatusOnlyForward ==
  [][/\ clock' >= clock
     /\ \A o \in Objs :
          fh'.lastOp # [op |-> "mark", obj |-> o] =>
            /\ StatusRank(props'[o]) >= StatusRank(props[o])
            /\ ~Tracked(o) => props'[o] = props[o]
            /\ (fh'.lastOp.op = "tick" /\ Tracked(o)
                /\ clock - Val(props[o].mesh_export_timestamp)
                     >= STALE_DURATION_SECONDS) =>
                 StatusRank(props'[o]) = 2]_vars

\* C30: a tick has just expired a record that was still FRESH, and another
\* object that was marked carries a STALE record.
C30_Witness ==
  /\ fh.lastOp.op = "tick"
  /\ \E a, b \in Objs :
       /\ a # b
       /\ a \in fh.wasFresh /\ Has(fh.lastMark[a]) /\ StatusRank(props[a]) = 2
       /\ Has(fh.lastMark[b]) /\ StatusRank(props[b]) = 1

\* the PascalCase form of a name: a known prefix in upper case, then the
\* words of the name, capitalised and joined without separator
PascalCase(name) ==
  LET temp_name == replace_chars(name, IllegalChars \cup {"-"}, " ")
      k == find(temp_name, <<"_">>)
      part0 == SubSeq(temp_name, 1, k - 1)
      known == /\ k # 0
               /\ Len(temp_name) > 4
               /\ str_upper(part0) \in known_prefixes
      prefix == IF known THEN str_upper(part0) \o <<"_">> ELSE <<>>
      rest == IF known THEN SubSeq(temp_name, k + 1, Len(temp_name)) ELSE temp_name
      words == NonEmpty(split(replace_chars(rest, {"_"}, " "), " "))
  IN prefix \o join([i \in DOMAIN words |-> capitalize(words[i])], <<>>)

\* C31: under the UNREAL convention apply_naming_convention returns the
\* PascalCase form of a name that has a word: the known prefix in upper
\* case, then the words, each capitalised, joined without separators.
C31_UnrealIsPascalCase ==
  (loc.at # "call" /\ loc.convention = "UNREAL") =>
    LET name == strip_lod_suffix(loc.name)
    IN PascalCase(name) # <<>> =>
         apply_naming_convention(name, "UNREAL") = PascalCase(name)

\* C31: setup_export_object has named, under UNREAL and without prefix or
\* suffix, the copy of the object "a B", and the base name is "a B".
C31_Witness ==
  /\ loc.at = "named"
  /\ loc.convention = "UNREAL"
  /\ loc.prefix = <<>> /\ loc.suffix = <<>>
  /\ loc.name = <<"a", " ", "B">>
  /\ loc.base_name = <<"a", " ", "B">>
  /\ PascalCase(loc.name) = <<"A", "B">>

\* C32: in every dispatch path the exporter of a format that takes a scale
\* is handed the export scale setup_export_object returned, so that the
\* FBX export of the LOD hierarchy and the FBX export of one level use the
\* same scale for the same settings.
C32_ExporterGetsEffectiveScale ==
  (loc.at = "exported" /\ loc.mesh_export_format \in {"FBX", "OBJ", "STL"}) =>
    loc.global_scale = <<final_scale_factor(loc.mesh_export_scale,
                                            loc.mesh_export_units,
                                            loc.mesh_export_format)>>

\* C32: the hierarchy export with a scale setting of 1.0 in centimetres has
\* handed 1.0 to the FBX exporter, where setup_export_object returned 100.0.
C32_Witness ==
  /\ loc.at = "exported"
  /\ loc.path = "hierarchy"
  /\ loc.mesh_export_units = "CENTIMETERS"
  /\ loc.mesh_export_scale = One
  /\ loc.export_scale = 100 * One
  /\ loc.global_scale = <<One>>

\* C33: when execute has finished, the number of files the summary states
\* is the number of files the batch wrote, the batch is reported as fully
\* successful exactly when no failure was recorded, and the summary names
\* every failed source object once, and no more than five objects.
C33_SummaryCountsFiles ==
  (pc = "done" /\ ex.result = "FINISHED") =>
    /\ ex.report.exported = Cardinality(files)
    /\ ex.report.overall_success <=> (ex.failed_exports = <<>>)
    /\ Len(ex.report.named) <= 5
    /\ \A i, j \in DOMAIN ex.report.named :
         i # j => ex.report.named[i] # ex.report.named[j]
    /\ Cardinality(FailedObjs) <= 5 =>
         {ex.report.named[i] : i \in DOMAIN ex.report.named} = FailedObjs

\* C33: a batch over one object in hierarchy mode has finished without a
\* failure; it wrote one file and the summary states one file per level.
C33_Witness ==
  /\ pc = "done" /\ ex.result = "FINISHED"
  /\ ex.hierarchy_mode
  /\ Len(ex.objects_to_export) = 1
  /\ ex.failed_exports = <<>>
  /\ ex.report.overall_success
  /\ Cardinality(files) = 1
  /\ ex.report.exported = scene_props.mesh_export_lod_count + 1

\* C34: when _process_single_export returns, on any exit path, nothing
\* temporary remains of the source: the working copy, if one was returned,
\* has been disposed exactly once, and the mesh object made of a metaball
\* has been removed, also when create_export_copy failed after making it.
C34_SingleLeavesNothing ==
  (Returned /\ InSingle) =>
    /\ Leftovers(Cur) = {}
    /\ hist.returned_copy # None => Count(hist.cleanupLog, hist.returned_copy) = 1

\* C34: the single-shot path has returned for a metaball whose duplication
\* failed in create_export_copy; no copy was returned and the mesh object
\* made of the metaball is still in the scene.
C34_Witness ==
  /\ Returned /\ InSingle
  /\ objType[Cur] = "META"
  /\ hist.returned_copy = None
  /\ hist.opLog = <<Op(0, "create")>>
  /\ loc.failures # <<>>
  /\ ConvertedId(Cur) \in objects

\* C35: after every mark, tick, clear-all or unregister, each mesh object is
\* either untracked, with no timestamp, no status and no saved colour, or
\* tracked with a timestamp and the status FRESH or STALE; NONE is never
\* stored, and only a tracked object carries a saved colour.
C35_TrackedOrClean ==
  \A o \in Objs :
    objType[o] = "MESH" =>
      /\ \/ props[o] = NoProps
         \/ /\ Has(props[o].mesh_export_timestamp)
            /\ props[o].mesh_export_status \in {<<FRESH>>, <<STALE>>}
      /\ props[o].mesh_export_status # <<NONE>>
      /\ Has(props[o].mesh_exporter_original_colour) => Tracked(o)

\* C35: unregister has just run on a FRESH record, and both that object and
\* another marked mesh object that was no longer FRESH are clean.
C35_Witness ==
  /\ fh.lastOp.op = "unregister"
  /\ \E a, b \in Objs :
       /\ a # b
       /\ objType[a] = "MESH" /\ objType[b] = "MESH"
       /\ a \in fh.wasFresh
       /\ Has(fh.lastMark[b]) /\ b \notin fh.wasFresh
       /\ props[a] = NoProps /\ props[b] = NoProps

\* the status update_all_export_statuses would compute for o now, NONE for
\* an object without a record
ComputedStatus(o) ==
  IF Tracked(o) THEN new_status(clock - Val(props[o].mesh_export_timestamp))
  ELSE NONE

\* C36: a timer tick leaves the timestamp of a record that stays tracked as
\* it is, leaves the properties and the colour of a record whose computed
\* status is the stored one as they are, adds no property to and does not
\* recolour an object without a record; a second tick at the same time
\* would change nothing.
C36_TickFrame ==
  [][fh'.lastOp.op = "tick" =>
       \A o \in Objs :
         /\ (Tracked(o) /\ Has(props'[o].mesh_export_timestamp)) =>
              props'[o].mesh_export_timestamp = props[o].mesh_export_timestamp
         /\ (Tracked(o) /\ props[o].mesh_export_status = <<ComputedStatus(o)>>) =>
              (props'[o] = props[o] /\ colour'[o] = colour[o])
         /\ ~Tracked(o) => (props'[o] = props[o] /\ colour'[o] = colour[o])
         /\ objType[o] # "MESH" => (props'[o] = props[o] /\ colour'[o] = colour[o])
         /\ update_one_status(objType[o], colour'[o], props'[o], clock')
              = <<colour'[o], props'[o], FALSE>>]_vars

\* C36: a tick has just turned one record STALE and left a FRESH record and
\* its colour alone.
C36_Witness ==
  /\ fh.lastOp.op = "tick"
  /\ \E a, b \in Objs :
       /\ a # b
       /\ a \in fh.wasFresh /\ props[a].mesh_export_status = <<STALE>>
       /\ props[a].mesh_export_timestamp = fh.lastMark[a]
       /\ b \in fh.wasFresh /\ props[b].mesh_export_status = <<FRESH>>
       /\ colour[b] = STATUS_COLOURS[FRESH]

C38_DistinctFiles ==
  \A i, j \in DOMAIN loc.written : i # j => loc.written[i] # loc.written[j]

\* C38: the objects "a." and "a_" were exported single-shot under DEFAULT;
\* both exports wrote the file "a_" and both count as a success.
C38_Witness ==
  /\ loc.names = <<<<"a", ".">>, <<"a", "_">>>>
  /\ loc.convention = "DEFAULT"
  /\ loc.lod_level = NoLevel
  /\ loc.written = <<<<"a", "_">>, <<"a", "_">>>>
  /\ loc.success_count = 2

====
